---- MODULE Spec2Model ----
(***************************************************************************)
(* Cloud Fire storage engine (utils/db, kept in src/README.md lines 81-523)*)
(* and the handlers of the App component that call it (src/vite.config.ts).*)
(*                                                                         *)
(* The persistent store is IndexedDB: object stores 'users' (key           *)
(* 'username', unique index 'id'), 'files' (key 'id'), 'folders' (key     *)
(* 'id') and 'config' (key 'key').  A store is modelled as a function from *)
(* the keys present to the records.  Every engine function is an operator  *)
(* from the store(s) it opens to the store(s) it leaves and the value its  *)
(* promise settles with; the actions apply one engine call at a time (no   *)
(* call in flight between two steps), and record the call and its outcome  *)
(* in `last`.                                                              *)
(***************************************************************************)
EXTENDS Integers, Sequences, FiniteSets, TLC

VARIABLES users, files, folders, config, last, db, calls, txq, minted

vars == <<users, files, folders, config, last, db, calls, txq, minted>>

\* the connection singleton, the calls in flight, their transactions, and
\* the number of share tokens the App has generated
inflight == <<db, calls, txq, minted>>

----------------------------------------------------------------------------
(* Bounds of the model *)

\* file sizes are drawn from 1..MaxSize
MaxSize == 2
\* calls that would push a storageUsed above MaxUsed are not explored
MaxUsed == 3
\* calls that would push a storageUsed below -MaxDebt are not explored
MaxDebt == 1

Sizes == 1..MaxSize

Usernames == {"admin", "alice"}
UserIds == {"admin", "u-1"}
Secrets == {"password", "hunter2"}
Tokens == {"t1", "t2"}

\* the tokens handleShareToggle generates, in the order it generates them:
\* two calls of Math.random are taken never to give the same token
TokenOrder == <<"t1", "t2", "t3">>

\* keys of the 'files' and 'folders' stores, in the stores' key order
FileOrder == <<"fi-1", "fi-2">>
FolderOrder == <<"f-1", "f-2">>

Range(s) == {s[i] : i \in DOMAIN s}

FileIds == Range(FileOrder)
FolderIds == Range(FolderOrder)

----------------------------------------------------------------------------
(* JavaScript values *)

Undefined == [undefined |-> TRUE]
Null == [null |-> TRUE]
\* an absent optional string (shareToken?: string)
NoToken == "undefined"
\* a null parentId (CloudFolder.parentId: string | null)
NullId == "null"
\* the opaque content payload (CloudFile.data)
Blob == [blob |-> TRUE]

\* a promise settles by resolve(value) or by reject(reason)
Resolve(v) == [settled |-> "resolve", value |-> v]
Reject(e) == [settled |-> "reject", value |-> e]

\* reject('Nome de usuário já existe'): the spec's DuplicateIdentity
DuplicateIdentity == "Nome de usuario ja existe"
\* reject("Conta desativada pelo administrador."): the spec's AccountDisabled
AccountDisabled == "Conta desativada pelo administrador."
\* reject("Arquivo não encontrado"): the spec's NotFound
NotFound == "Arquivo nao encontrado"
\* reject(req.error) of a failed add/put: IndexedDB's ConstraintError
ConstraintError == "ConstraintError"

\* currentFolderId starts at 'root': the root sentinel
Root == "root"

----------------------------------------------------------------------------
(* The connection singleton.  `instance` is dbInstance and `promise` is     *)
(* dbPromise: null, or the number of the open request it stands for (a      *)
(* handle is named by the request that delivered it); `reqs` holds the      *)
(* state of every open request issued, in the order of issue.               *)

NoHandle == 0

ColdDB == [instance |-> NoHandle, promise |-> NoHandle, reqs |-> <<>>]

\* after the one open request has succeeded
OpenedDB == [instance |-> 1, promise |-> 1, reqs |-> <<"success">>]

\* reject('Erro ao abrir o banco de dados')
OpenFailed == "Erro ao abrir o banco de dados"
\* throw new Error("Database failed to initialize")
InitFailed == "Database failed to initialize"

\* a test that opens the database again once the request has settled
NeedsOpen_Reopens(d) == d.promise = NoHandle \/ d.reqs[d.promise] # "pending"

\* a test that lets every call before completion open the database
NeedsOpen_Always(d) == TRUE

\* initDB's test before it issues indexedDB.open: if (!dbPromise)
NeedsOpen(d) == d.promise = NoHandle

\* initDB past its dbInstance test: the open request is issued when there is
\* no dbPromise, and dbPromise then stands for it
initDB(d) ==
  IF NeedsOpen(d)
  THEN [d EXCEPT !.reqs = Append(@, "pending"), !.promise = Len(d.reqs) + 1]
  ELSE d

\* the slots for calls in flight, and a slot with no call
Slots == {"c1", "c2", "c3"}
IdleCall == [op |-> "idle", pc |-> "idle"]

\* the readwrite transactions created and not finished, per store, in the
\* order of creation
NoTx == [users |-> <<>>, files |-> <<>>]

\* transactions that run in any order
TxCanRun_Unordered(queue, c) == TRUE

\* a readwrite transaction runs once every readwrite transaction created
\* before it on the same store has finished
TxCanRun(queue, c) == queue # <<>> /\ Head(queue) = c

\* the queue once the transaction of c has finished
TxDone(queue, c) == SelectSeq(queue, LAMBDA x : x # c)

----------------------------------------------------------------------------
(* IndexedDB object-store primitives *)

\* store.get(key): the record, or undefined
StoreGet(store, key) == IF key \in DOMAIN store THEN store[key] ELSE Undefined

\* store.put(rec) under key: insert or replace
StorePut(store, key, rec) ==
  [k \in DOMAIN store \cup {key} |-> IF k = key THEN rec ELSE store[k]]

\* store.delete(key): succeeds whether or not the key is present
StoreDelete(store, key) == [k \in DOMAIN store \ {key} |-> store[k]]

\* store.getAll() / a cursor over the store: the records in key order
RECURSIVE GetAllFrom(_, _, _)
GetAllFrom(store, order, i) ==
  IF i > Len(order) THEN <<>>
  ELSE IF order[i] \in DOMAIN store
       THEN <<store[order[i]]>> \o GetAllFrom(store, order, i + 1)
       ELSE GetAllFrom(store, order, i + 1)

StoreGetAll(store, order) == GetAllFrom(store, order, 1)

\* index('parentId').getAll(parentId): a record whose parentId is null has no
\* index entry; the others come in key order
IsParent(r, parentId) == r.parentId # NullId /\ r.parentId = parentId

ParentIndexGetAll(store, order, parentId) ==
  LET hit(r) == IsParent(r, parentId) IN SelectSeq(StoreGetAll(store, order), hit)

\* a 'users' store whose index 'id' is not unique
UniqueIdOk_Unchecked(us, user) == TRUE

\* the unique index 'id' of 'users': add/put fails when another key holds the id
UniqueIdOk(us, user) ==
  \A k \in DOMAIN us : k # user.username => us[k].id # user.id

\* index('id').get(userId) on 'users'
IdIndexGet(us, userId) ==
  IF \E k \in DOMAIN us : us[k].id = userId
  THEN us[CHOOSE k \in DOMAIN us : us[k].id = userId]
  ELSE Undefined

----------------------------------------------------------------------------
(* Type classification.  A mime type is a string, modelled as the sequence  *)
(* of its characters.                                                       *)

\* String.prototype.startsWith
StartsWith(s, p) == Len(s) >= Len(p) /\ SubSeq(s, 1, Len(p)) = p

\* String.prototype.includes
Includes(s, p) ==
  \E i \in 1..(Len(s) - Len(p) + 1) : SubSeq(s, i, i + Len(p) - 1) = p

ImagePrefix == <<"i", "m", "a", "g", "e", "/">>
VideoPrefix == <<"v", "i", "d", "e", "o", "/">>
AudioPrefix == <<"a", "u", "d", "i", "o", "/">>
Pdf == <<"p", "d", "f">>
Text == <<"t", "e", "x", "t">>
Document == <<"d", "o", "c", "u", "m", "e", "n", "t">>
Zip == <<"z", "i", "p">>
Rar == <<"r", "a", "r">>
SevenZ == <<"7", "z">>

\* the mime type of a File the browser could not type: ''
NoMime == <<>>

\* getFileType with the archive test ahead of the document test
getFileType_ArchiveFirst(mimeType) ==
  IF StartsWith(mimeType, ImagePrefix) THEN "IMAGE"
  ELSE IF StartsWith(mimeType, VideoPrefix) THEN "VIDEO"
  ELSE IF StartsWith(mimeType, AudioPrefix) THEN "AUDIO"
  ELSE IF Includes(mimeType, Zip) \/ Includes(mimeType, Rar)
          \/ Includes(mimeType, SevenZ) THEN "ARCHIVE"
  ELSE IF Includes(mimeType, Pdf) \/ Includes(mimeType, Text)
          \/ Includes(mimeType, Document) THEN "DOCUMENT"
  ELSE "UNKNOWN"

\* getFileType: the tests in the order of the code, the first that holds wins
getFileType(mimeType) ==
  IF StartsWith(mimeType, ImagePrefix) THEN "IMAGE"
  ELSE IF StartsWith(mimeType, VideoPrefix) THEN "VIDEO"
  ELSE IF StartsWith(mimeType, AudioPrefix) THEN "AUDIO"
  ELSE IF Includes(mimeType, Pdf) \/ Includes(mimeType, Text)
          \/ Includes(mimeType, Document) THEN "DOCUMENT"
  ELSE IF Includes(mimeType, Zip) \/ Includes(mimeType, Rar)
          \/ Includes(mimeType, SevenZ) THEN "ARCHIVE"
  ELSE "UNKNOWN"

----------------------------------------------------------------------------
(* Records *)

\* storageLimit, on the scale of the file sizes: one file of the largest size
\* fills the quota, so the explored storageUsed can pass it
StorageLimit == MaxSize

\* types.ts User: the fields the engine reads or writes, storageLimit, and
\* role and plan as handleAuth sets them
User(id, username, password, storageUsed, isActive) ==
  [username |-> username, id |-> id, password |-> password,
   storageUsed |-> storageUsed, isActive |-> isActive,
   storageLimit |-> StorageLimit, role |-> "user", plan |-> "free"]

\* handleAuth: the record of a new registration
NewUser(id, username, password) == User(id, username, password, 0, TRUE)

\* the default admin of the App's initialization effect
AdminUser ==
  [User("admin", "admin", "password", 0, TRUE) EXCEPT
     !.role = "admin", !.plan = "enterprise"]

\* handleFileUpload: the record of a new upload (isTrashed, trashedAt,
\* shareToken and shareCreatedAt are left out, which reads as not set)
NewFile(id, ownerId, parentId, size) ==
  [parentId |-> parentId, id |-> id, ownerId |-> ownerId,
   size |-> size, type |-> getFileType(NoMime),
   data |-> Blob, isShared |-> FALSE, shareToken |-> NoToken,
   shareCreatedAt |-> FALSE, isTrashed |-> FALSE, trashedAt |-> FALSE]

\* types.ts CloudFolder
Folder(id, ownerId, parentId, isTrashed) ==
  [parentId |-> parentId, id |-> id, ownerId |-> ownerId,
   isTrashed |-> isTrashed, trashedAt |-> isTrashed]

----------------------------------------------------------------------------
(* User operations.  Each returns the 'users' store it leaves and the value *)
(* its promise settles with.                                                *)

\* registerUser writing with put instead of add
registerUser_Overwrites(us, user) ==
  IF UniqueIdOk(us, user)
  THEN [users |-> StorePut(us, user.username, user), res |-> Resolve(Undefined)]
  ELSE [users |-> us, res |-> Reject(DuplicateIdentity)]

\* registerUser: store.add(user)
registerUser(us, user) ==
  IF user.username \notin DOMAIN us /\ UniqueIdOk(us, user)
  THEN [users |-> StorePut(us, user.username, user), res |-> Resolve(Undefined)]
  ELSE [users |-> us, res |-> Reject(DuplicateIdentity)]

\* loginUser testing isActive before the password
loginUser_DisabledFirst(us, username, password) ==
  LET user == StoreGet(us, username) IN
  IF user # Undefined /\ user.isActive = FALSE
  THEN Reject(AccountDisabled)
  ELSE IF user # Undefined /\ user.password = password
       THEN Resolve(user)
       ELSE Resolve(Null)

\* loginUser: store.get(username), then the password and isActive tests
loginUser(us, username, password) ==
  LET user == StoreGet(us, username) IN
  IF user # Undefined /\ user.password = password
  THEN IF user.isActive = FALSE
       THEN Reject(AccountDisabled)
       ELSE Resolve(user)
  ELSE Resolve(Null)

\* updateUserStorage's record with the amount stored instead of added
AddBytes_Sets(user, bytesToAdd) ==
  [user EXCEPT !.storageUsed = bytesToAdd]

\* the record updateUserStorage writes back
AddBytes(user, bytesToAdd) ==
  [user EXCEPT !.storageUsed = @ + bytesToAdd]

\* updateUserStorage: index('id').get(userId), storageUsed += bytesToAdd, put;
\* resolves without writing when no user has the id
updateUserStorage(us, userId, bytesToAdd) ==
  LET user == IdIndexGet(us, userId) IN
  IF user # Undefined
  THEN StorePut(us, user.username, AddBytes(user, bytesToAdd))
  ELSE us

\* updateUser: store.put(user)
updateUser(us, user) ==
  IF UniqueIdOk(us, user)
  THEN [users |-> StorePut(us, user.username, user), res |-> Resolve(Undefined)]
  ELSE [users |-> us, res |-> Reject(ConstraintError)]

\* deleteUser: store.delete(username)
deleteUser(us, username) ==
  [users |-> StoreDelete(us, username), res |-> Resolve(Undefined)]

\* a seeding that leaves the admin it finds as it is
seedAdmin_KeepsExisting(us) ==
  LET r == registerUser(us, AdminUser) IN
  IF r.res.settled = "resolve" THEN r
  ELSE [users |-> us, res |-> Resolve(Undefined)]

\* a seeding that removes the admin it finds
seedAdmin_DropsExisting(us) ==
  LET r == registerUser(us, AdminUser) IN
  IF r.res.settled = "resolve" THEN r ELSE deleteUser(us, "admin")

\* the App's initialization effect: registerUser(adminUser), and on its
\* rejection updateUser(adminUser)
seedAdmin(us) ==
  LET r == registerUser(us, AdminUser) IN
  IF r.res.settled = "resolve" THEN r ELSE updateUser(us, AdminUser)

----------------------------------------------------------------------------
(* Config operations.  A CDNConfig is a function from the names of the      *)
(* fields it populates to their values.                                     *)

\* the key of the single row of 'config'
CdnKey == "cdn"

\* getCDNConfig's answer when the store has no row: { provider: 'local' }
DefaultConfig == [f \in {"provider"} |-> "local"]

\* the object literal { key: 'cdn', ...config }: the fields of config, and a
\* key field that is 'cdn' unless config has a key field of its own
ConfigRow(cfg) ==
  [f \in {"key"} \cup DOMAIN cfg |-> IF f \in DOMAIN cfg THEN cfg[f] ELSE CdnKey]

\* saveCDNConfig keeping the fields of the stored row that config leaves out
saveCDNConfig_Merges(cs, cfg) ==
  LET old == IF CdnKey \in DOMAIN cs THEN cs[CdnKey] ELSE ConfigRow(cfg)
      row == [f \in DOMAIN old \cup DOMAIN ConfigRow(cfg) |->
                IF f \in DOMAIN ConfigRow(cfg) THEN ConfigRow(cfg)[f] ELSE old[f]]
  IN [config |-> StorePut(cs, row["key"], row), res |-> Resolve(Undefined)]

\* saveCDNConfig: store.put({ key: 'cdn', ...config })
saveCDNConfig(cs, cfg) ==
  LET row == ConfigRow(cfg) IN
  [config |-> StorePut(cs, row["key"], row), res |-> Resolve(Undefined)]

\* getCDNConfig: store.get('cdn'), or the default when there is no row
getCDNConfig(cs) ==
  LET row == StoreGet(cs, CdnKey) IN
  IF row # Undefined THEN Resolve(row) ELSE Resolve(DefaultConfig)

----------------------------------------------------------------------------
(* File operations.  Each returns the stores it leaves and its outcome.     *)

\* addFileToDB giving the bytes back when the add fails
addFileToDB_RollsBack(us, fs, file) ==
  IF file.id \notin DOMAIN fs
  THEN [users |-> updateUserStorage(us, file.ownerId, file.size),
        files |-> StorePut(fs, file.id, file), res |-> Resolve(Undefined)]
  ELSE [users |-> us, files |-> fs, res |-> Reject(ConstraintError)]

\* addFileToDB refusing a file that takes its owner past storageLimit
addFileToDB_EnforcesLimit(us, fs, file) ==
  LET owner == IdIndexGet(us, file.ownerId)
      us1 == updateUserStorage(us, file.ownerId, file.size) IN
  IF owner # Undefined /\ owner.storageUsed + file.size > owner.storageLimit
  THEN [users |-> us, files |-> fs, res |-> Reject(ConstraintError)]
  ELSE IF file.id \notin DOMAIN fs
       THEN [users |-> us1, files |-> StorePut(fs, file.id, file),
             res |-> Resolve(Undefined)]
       ELSE [users |-> us1, files |-> fs, res |-> Reject(ConstraintError)]

\* addFileToDB refusing a file whose owner has no user record
addFileToDB_RequiresOwner(us, fs, file) ==
  LET us1 == updateUserStorage(us, file.ownerId, file.size) IN
  IF file.id \notin DOMAIN fs /\ IdIndexGet(us, file.ownerId) # Undefined
  THEN [users |-> us1, files |-> StorePut(fs, file.id, file),
        res |-> Resolve(Undefined)]
  ELSE [users |-> us1, files |-> fs, res |-> Reject(ConstraintError)]

\* addFileToDB: updateUserStorage(ownerId, size), then store.add(file); the
\* quota write is committed before the add is tried
addFileToDB(us, fs, file) ==
  LET us1 == updateUserStorage(us, file.ownerId, file.size) IN
  IF file.id \notin DOMAIN fs
  THEN [users |-> us1, files |-> StorePut(fs, file.id, file),
        res |-> Resolve(Undefined)]
  ELSE [users |-> us1, files |-> fs, res |-> Reject(ConstraintError)]

\* getFilesFromDB without the trash test in its filter
getFilesFromDB_ListsTrashed(fs, parentId, ownerId) ==
  LET keep(f) == f.ownerId = ownerId IN
  SelectSeq(ParentIndexGetAll(fs, FileOrder, parentId), keep)

\* getFilesFromDB: index('parentId').getAll(parentId), filtered by owner and
\* not trashed
getFilesFromDB(fs, parentId, ownerId) ==
  LET keep(f) == f.ownerId = ownerId /\ ~f.isTrashed IN
  SelectSeq(ParentIndexGetAll(fs, FileOrder, parentId), keep)

\* getFileContent: store.get(id), then result?.data
getFileContent(fs, id) ==
  LET file == StoreGet(fs, id) IN
  IF file = Undefined THEN Undefined ELSE file.data

\* trashFile's record with the bytes given up
TrashedRec_ZeroSize(file) ==
  [file EXCEPT !.isTrashed = TRUE, !.trashedAt = TRUE,
               !.isShared = IF @ THEN FALSE ELSE @, !.size = 0]

\* trashFile's record with the share flag left as it was
TrashedRec_KeepsShare(file) ==
  [file EXCEPT !.isTrashed = TRUE, !.trashedAt = TRUE]

\* the record trashFile writes back
TrashedRec(file) ==
  [file EXCEPT !.isTrashed = TRUE, !.trashedAt = TRUE,
               !.isShared = IF @ THEN FALSE ELSE @]

\* trashFile rejecting when the file is not found
trashFile_Strict(fs, id) ==
  LET file == StoreGet(fs, id) IN
  IF file # Undefined
  THEN [files |-> StorePut(fs, id, TrashedRec(file)), res |-> Resolve(Undefined)]
  ELSE [files |-> fs, res |-> Reject(NotFound)]

\* trashFile: get, mark, put; resolves when the file is not found
trashFile(fs, id) ==
  LET file == StoreGet(fs, id) IN
  IF file # Undefined
  THEN [files |-> StorePut(fs, id, TrashedRec(file)), res |-> Resolve(Undefined)]
  ELSE [files |-> fs, res |-> Resolve(Undefined)]

\* restoreFile's record with sharing resumed for a file that was shared once
RestoredRec_ResumesShare(file) ==
  [file EXCEPT !.isTrashed = FALSE, !.trashedAt = FALSE,
               !.isShared = file.shareCreatedAt]

\* the record restoreFile writes back
RestoredRec(file) ==
  [file EXCEPT !.isTrashed = FALSE, !.trashedAt = FALSE]

\* restoreFile: get, unmark, put; resolves when the file is not found
restoreFile(fs, id) ==
  LET file == StoreGet(fs, id) IN
  IF file # Undefined
  THEN [files |-> StorePut(fs, id, RestoredRec(file)), res |-> Resolve(Undefined)]
  ELSE [files |-> fs, res |-> Resolve(Undefined)]

\* deleteFileFromDB taking owner and size from the stored record, and doing
\* nothing when there is none
deleteFileFromDB_ReadsRecord(us, fs, id, ownerId, size) ==
  LET file == StoreGet(fs, id) IN
  IF file = Undefined
  THEN [users |-> us, files |-> fs, res |-> Resolve(Undefined)]
  ELSE [users |-> updateUserStorage(us, file.ownerId, 0 - file.size),
        files |-> StoreDelete(fs, id), res |-> Resolve(Undefined)]

\* deleteFileFromDB keeping the record of a file whose owner has no user record
deleteFileFromDB_NeedsOwner(us, fs, id, ownerId, size) ==
  [users |-> updateUserStorage(us, ownerId, 0 - size),
   files |-> IF IdIndexGet(us, ownerId) = Undefined THEN fs ELSE StoreDelete(fs, id),
   res |-> Resolve(Undefined)]

\* deleteFileFromDB with the sign of the adjustment lost
deleteFileFromDB_AddsSize(us, fs, id, ownerId, size) ==
  [users |-> updateUserStorage(us, ownerId, size),
   files |-> StoreDelete(fs, id), res |-> Resolve(Undefined)]

\* deleteFileFromDB: updateUserStorage(ownerId, -size), then store.delete(id)
deleteFileFromDB(us, fs, id, ownerId, size) ==
  [users |-> updateUserStorage(us, ownerId, 0 - size),
   files |-> StoreDelete(fs, id), res |-> Resolve(Undefined)]

\* updateFileShareStatus's record with the token argument not stored
SharedRec_DropsToken(file, isShared, shareToken) ==
  [file EXCEPT !.isShared = isShared, !.shareCreatedAt = isShared]

\* the record updateFileShareStatus writes back
SharedRec(file, isShared, shareToken) ==
  [file EXCEPT !.isShared = isShared, !.shareToken = shareToken,
               !.shareCreatedAt = isShared]

\* updateFileShareStatus resolving when the file is not found
updateFileShareStatus_SilentMissing(fs, fileId, isShared, shareToken) ==
  LET file == StoreGet(fs, fileId) IN
  IF file # Undefined
  THEN [files |-> StorePut(fs, fileId, SharedRec(file, isShared, shareToken)),
        res |-> Resolve(Undefined)]
  ELSE [files |-> fs, res |-> Resolve(Undefined)]

\* updateFileShareStatus: get, set the share fields, put; rejects when the
\* file is not found
updateFileShareStatus(fs, fileId, isShared, shareToken) ==
  LET file == StoreGet(fs, fileId) IN
  IF file # Undefined
  THEN [files |-> StorePut(fs, fileId, SharedRec(file, isShared, shareToken)),
        res |-> Resolve(Undefined)]
  ELSE [files |-> fs, res |-> Reject(NotFound)]

\* the cursor's test without the trash check
ShareMatch_IgnoresTrash(file, token) ==
  file.isShared /\ file.shareToken = token

\* the test getFileByShareToken applies to each record under the cursor
ShareMatch(file, token) ==
  file.isShared /\ file.shareToken = token /\ ~file.isTrashed

\* getFileByShareToken: a cursor over 'files' in key order; the first match
\* is resolved, null at the end of the store
RECURSIVE ShareCursor(_, _, _)
ShareCursor(fs, token, i) ==
  IF i > Len(FileOrder) THEN Null
  ELSE IF FileOrder[i] \in DOMAIN fs /\ ShareMatch(fs[FileOrder[i]], token)
       THEN fs[FileOrder[i]]
       ELSE ShareCursor(fs, token, i + 1)

\* a scan that gives up after the first record of the store
getFileByShareToken_FirstOnly(fs, token) ==
  IF FileOrder[1] \in DOMAIN fs /\ ShareMatch(fs[FileOrder[1]], token)
  THEN fs[FileOrder[1]]
  ELSE Null

getFileByShareToken(fs, token) == ShareCursor(fs, token, 1)

----------------------------------------------------------------------------
(* Folder operations and trash management *)

\* addFolderToDB: store.add(folder)
addFolderToDB(ds, folder) ==
  IF folder.id \notin DOMAIN ds
  THEN [folders |-> StorePut(ds, folder.id, folder), res |-> Resolve(Undefined)]
  ELSE [folders |-> ds, res |-> Reject(ConstraintError)]

\* getFoldersFromDB without the trash test in its filter
getFoldersFromDB_ListsTrashed(ds, parentId, ownerId) ==
  LET keep(f) == f.ownerId = ownerId IN
  SelectSeq(ParentIndexGetAll(ds, FolderOrder, parentId), keep)

\* getFoldersFromDB: index('parentId').getAll(parentId), filtered by owner and
\* not trashed
getFoldersFromDB(ds, parentId, ownerId) ==
  LET keep(f) == f.ownerId = ownerId /\ ~f.isTrashed IN
  SelectSeq(ParentIndexGetAll(ds, FolderOrder, parentId), keep)

\* the trash filter without the owner test
IsTrashedOf_AnyOwner(f, ownerId) == f.isTrashed

\* the filter getTrashedItems applies to both stores
IsTrashedOf(f, ownerId) == f.ownerId = ownerId /\ f.isTrashed

\* getTrashedItems: getAll() of 'files' and of 'folders', each filtered by
\* owner and trashed
getTrashedItems(fs, ds, ownerId) ==
  LET keep(f) == IsTrashedOf(f, ownerId) IN
  [files |-> SelectSeq(StoreGetAll(fs, FileOrder), keep),
   folders |-> SelectSeq(StoreGetAll(ds, FolderOrder), keep)]

\* the loop of emptyTrash: deleteFileFromDB(file.id, ownerId, file.size) for
\* each file of the list, one after the other
RECURSIVE PurgeEach(_, _, _, _, _)
PurgeEach(us, fs, list, ownerId, i) ==
  IF i > Len(list) THEN [users |-> us, files |-> fs, res |-> Resolve(Undefined)]
  ELSE LET r == deleteFileFromDB(us, fs, list[i].id, ownerId, list[i].size) IN
       PurgeEach(r.users, r.files, list, ownerId, i + 1)

\* emptyTrash: getTrashedItems(ownerId), then the loop over its files
emptyTrash(us, fs, ds, ownerId) ==
  PurgeEach(us, fs, getTrashedItems(fs, ds, ownerId).files, ownerId, 1)

----------------------------------------------------------------------------
(* Admin stats *)

\* the cursor's running sum of size over the records under `keys`
RECURSIVE SizeSum(_, _)
SizeSum(fs, keys) ==
  IF keys = {} THEN 0
  ELSE LET k == CHOOSE x \in keys : TRUE IN fs[k].size + SizeSum(fs, keys \ {k})

\* Math.floor(count * 0.4), ... 0.3, 0.1, 0.2: the factor in tenths
FloorTenths(count, tenths) == (count * tenths) \div 10

\* the object of the catch block
ZeroStats == [totalUsers |-> 0, totalFiles |-> 0, totalStorage |-> 0, recentUploads |-> <<>>]

\* the cursor's count without the trashed records
FileCount_SkipsTrashed(fs) == Cardinality({k \in DOMAIN fs : ~fs[k].isTrashed})

\* the cursor's count: count++ for every record
FileCount(fs) == Cardinality(DOMAIN fs)

\* getSystemStats when both scans succeed: store.count() of 'users', then a
\* cursor over 'files' counting and summing size, then the fixed split
getSystemStats(us, fs) ==
  LET count == FileCount(fs) IN
  [totalUsers |-> Cardinality(DOMAIN us),
   totalFiles |-> count,
   totalStorage |-> SizeSum(fs, DOMAIN fs),
   recentUploads |-> <<FloorTenths(count, 4), FloorTenths(count, 3),
                       FloorTenths(count, 1), FloorTenths(count, 2)>>]

----------------------------------------------------------------------------
(* State *)

\* the call that settled last: its name, its arguments and its outcome, and
\* for an upload the id of the file it was given and the user record
\* index('id') held for the owner before the call (undefined when none)
Call(op, arg, res) == [op |-> op, id |-> NullId, res |-> res, arg |-> arg, pre |-> Undefined]

UploadCall(arg, id, res, pre) == [op |-> "upload", id |-> id, res |-> res, arg |-> arg, pre |-> pre]

\* a purge that undoes the upload before it keeps that upload's id and `pre`
PurgeCall(arg, id, res, pre) == [op |-> "purge", id |-> id, res |-> res, arg |-> arg, pre |-> pre]

\* a deleteUser keeps the record store.get held for the username before it
DeleteUserCall(arg, res, pre) == [op |-> "deleteUser", id |-> NullId, res |-> res, arg |-> arg, pre |-> pre]

\* a seeding keeps the record store.get held for 'admin' before it
SeedCall(res, pre) == [op |-> "seedAdmin", id |-> NullId, res |-> res, arg |-> <<>>, pre |-> pre]

\* an emptyTrash keeps the user record index('id') held for the owner before it
EmptyTrashCall(arg, res, pre) == [op |-> "emptyTrash", id |-> NullId, res |-> res, arg |-> arg, pre |-> pre]

Resolved(r, v) == r.settled = "resolve" /\ r.value = v
Rejected(r, e) == r.settled = "reject" /\ r.value = e

\* the database as initDB's onupgradeneeded creates it: empty stores, and
\* the connection that initDB has opened
Init ==
  /\ users = <<>>
  /\ files = <<>>
  /\ folders = <<>>
  /\ config = <<>>
  /\ last = Call("initDB", <<>>, Resolve(Undefined))
  /\ db = OpenedDB
  /\ calls = [c \in Slots |-> IdleCall]
  /\ txq = NoTx
  /\ minted = 0

\* the module as loaded, before any call: dbInstance and dbPromise are null
\* and no open request has been issued
InitCold ==
  /\ users = <<>>
  /\ files = <<>>
  /\ folders = <<>>
  /\ config = <<>>
  /\ last = Call("load", <<>>, Resolve(Undefined))
  /\ db = ColdDB
  /\ calls = [c \in Slots |-> IdleCall]
  /\ txq = NoTx
  /\ minted = 0

\* no storageUsed leaves the explored range
InRange(us) ==
  \A k \in DOMAIN us :
    us[k].storageUsed <= MaxUsed /\ us[k].storageUsed >= 0 - MaxDebt

----------------------------------------------------------------------------
(* Actions: one settled engine call each *)

Register(user) ==
  LET r == registerUser(users, user) IN
  /\ users' = r.users
  /\ last' = Call("register", <<user>>, r.res)
  /\ UNCHANGED <<files, folders, config, inflight>>

SeedAdmin ==
  LET r == seedAdmin(users) IN
  /\ users' = r.users
  /\ last' = SeedCall(r.res, StoreGet(users, "admin"))
  /\ UNCHANGED <<files, folders, config, inflight>>

Authenticate(username, password) ==
  /\ last' = Call("authenticate", <<username, password>>, loginUser(users, username, password))
  /\ UNCHANGED <<users, files, folders, config, inflight>>

UpdateUser(user) ==
  LET r == updateUser(users, user) IN
  /\ users' = r.users
  /\ last' = Call("updateUser", <<user>>, r.res)
  /\ UNCHANGED <<files, folders, config, inflight>>

DeleteUser(username) ==
  LET r == deleteUser(users, username) IN
  /\ users' = r.users
  /\ last' = DeleteUserCall(<<username>>, r.res, StoreGet(users, username))
  /\ UNCHANGED <<files, folders, config, inflight>>

Upload(file) ==
  LET r == addFileToDB(users, files, file) IN
  /\ InRange(r.users)
  /\ users' = r.users
  /\ files' = r.files
  /\ last' = UploadCall(<<file>>, file.id, r.res, IdIndexGet(users, file.ownerId))
  /\ UNCHANGED <<folders, config, inflight>>

Trash(id) ==
  LET r == trashFile(files, id) IN
  /\ files' = r.files
  /\ last' = Call("trash", <<id>>, r.res)
  /\ UNCHANGED <<users, folders, config, inflight>>

Restore(id) ==
  LET r == restoreFile(files, id) IN
  /\ files' = r.files
  /\ last' = Call("restore", <<id>>, r.res)
  /\ UNCHANGED <<users, folders, config, inflight>>

\* a purge of the file the call before it has just uploaded, given that
\* file's owner and size
UndoesUpload(id, ownerId, size) ==
  /\ last.op = "upload" /\ last.res.settled = "resolve" /\ last.id = id
  /\ files[id].ownerId = ownerId /\ files[id].size = size

Purge(id, ownerId, size) ==
  LET r == deleteFileFromDB(users, files, id, ownerId, size) IN
  /\ InRange(r.users)
  /\ users' = r.users
  /\ files' = r.files
  /\ last' = IF UndoesUpload(id, ownerId, size)
             THEN PurgeCall(<<id, ownerId, size>>, id, r.res, last.pre)
             ELSE Call("purge", <<id, ownerId, size>>, r.res)
  /\ UNCHANGED <<folders, config, inflight>>

EmptyTrash(ownerId) ==
  LET r == emptyTrash(users, files, folders, ownerId) IN
  /\ InRange(r.users)
  /\ users' = r.users
  /\ files' = r.files
  /\ last' = EmptyTrashCall(<<ownerId>>, r.res, IdIndexGet(users, ownerId))
  /\ UNCHANGED <<folders, config, inflight>>

SetShare(fileId, isShared, shareToken) ==
  LET r == updateFileShareStatus(files, fileId, isShared, shareToken) IN
  /\ files' = r.files
  /\ last' = Call("setShare", <<fileId, isShared, shareToken>>, r.res)
  /\ UNCHANGED <<users, folders, config, inflight>>

ResolveShare(token) ==
  /\ last' = Call("resolveShare", <<token>>, Resolve(getFileByShareToken(files, token)))
  /\ UNCHANGED <<users, files, folders, config, inflight>>

CreateFolder(folder) ==
  LET r == addFolderToDB(folders, folder) IN
  /\ folders' = r.folders
  /\ last' = Call("createFolder", <<folder>>, r.res)
  /\ UNCHANGED <<users, files, config, inflight>>

\* a toggle that generates a token whenever it turns sharing on
ToggleToken_AlwaysFresh(selectedFile, n) == TokenOrder[n + 1]

\* handleShareToggle's token when it turns sharing on: the token of
\* selectedFile, and a generated one when selectedFile has none
ToggleToken(selectedFile, n) ==
  IF selectedFile.shareToken = NoToken THEN TokenOrder[n + 1]
  ELSE selectedFile.shareToken

\* handleShareToggle on the selected file, a file of the listing: the share
\* flag is inverted; turned on, the file gets ToggleToken, turned off, no
\* token
ShareToggle(id) ==
  /\ id \in DOMAIN files /\ ~files[id].isTrashed
  /\ LET selectedFile == files[id]
         newStatus == ~selectedFile.isShared
         token == IF newStatus THEN ToggleToken(selectedFile, minted) ELSE NoToken
         r == updateFileShareStatus(files, id, newStatus, token)
     IN /\ newStatus => minted < Len(TokenOrder)
        /\ files' = r.files
        /\ minted' = IF newStatus /\ token # selectedFile.shareToken
                      THEN minted + 1 ELSE minted
        /\ last' = [Call("shareToggle", <<id>>, r.res) EXCEPT !.pre = selectedFile]
  /\ UNCHANGED <<users, folders, config, db, calls, txq>>

\* updateUserStorage called on its own: it resolves on every path
AdjustUsage(userId, bytesToAdd) ==
  LET us1 == updateUserStorage(users, userId, bytesToAdd) IN
  /\ InRange(us1)
  /\ users' = us1
  /\ last' = Call("adjustUsage", <<userId, bytesToAdd>>, Resolve(Undefined))
  /\ UNCHANGED <<files, folders, config, inflight>>

\* handleAdminDeleteFile: deleteFileFromDB(file.id, file.ownerId, file.size)
\* on a file of the global listing, trashed or not
AdminDeleteFile(id) ==
  /\ id \in DOMAIN files
  /\ Purge(id, files[id].ownerId, files[id].size)

PutConfig(cfg) ==
  LET r == saveCDNConfig(config, cfg) IN
  /\ config' = r.config
  /\ last' = Call("putConfig", <<cfg>>, r.res)
  /\ UNCHANGED <<users, files, folders, inflight>>

GetConfig ==
  /\ last' = Call("getConfig", <<>>, getCDNConfig(config))
  /\ UNCHANGED <<users, files, folders, config, inflight>>

\* getFileType applied to a mime type
Classify(mimeType) ==
  /\ last' = Call("getFileType", <<mimeType>>, Resolve(getFileType(mimeType)))
  /\ UNCHANGED <<users, files, folders, config, inflight>>

----------------------------------------------------------------------------
(* Calls on the connection singleton *)

GetDBDone(handle, waited) ==
  [op |-> "getDB", pc |-> "done", res |-> Resolve(handle), waited |-> waited]

GetDBFailed(reason) == [op |-> "getDB", pc |-> "failed", res |-> Reject(reason)]

\* getDB up to its await: dbInstance is returned when set; otherwise initDB
\* runs and the caller awaits dbPromise.  When that promise is settled
\* already there is nothing to wait for: a rejected one rejects the call,
\* and a fulfilled one leaves dbInstance null, so getDB throws.
GetDB(c) ==
  /\ calls[c] = IdleCall
  /\ IF db.instance # NoHandle
     THEN /\ db' = db
          /\ calls' = [calls EXCEPT ![c] = GetDBDone(db.instance, FALSE)]
     ELSE LET d1 == initDB(db)
              st == d1.reqs[d1.promise]
          IN /\ db' = d1
             /\ calls' = [calls EXCEPT ![c] =
                   IF st = "pending"
                   THEN [op |-> "getDB", pc |-> "await", awaiting |-> d1.promise]
                   ELSE IF st = "success" THEN GetDBFailed(InitFailed)
                   ELSE GetDBFailed(OpenFailed)]
  /\ UNCHANGED <<users, files, folders, config, last, txq, minted>>

\* request.onsuccess: dbInstance is set and the promise fulfilled; every
\* caller awaiting it resumes in the same turn and returns dbInstance
OpenSuccess(r) ==
  /\ r \in DOMAIN db.reqs /\ db.reqs[r] = "pending"
  /\ db' = [db EXCEPT !.reqs[r] = "success", !.instance = r]
  /\ calls' = [c \in Slots |->
                IF calls[c].pc = "await" /\ calls[c].awaiting = r
                THEN GetDBDone(r, TRUE) ELSE calls[c]]
  /\ UNCHANGED <<users, files, folders, config, last, txq, minted>>

\* request.onerror: the promise is rejected, and stays dbPromise
OpenError(r) ==
  /\ r \in DOMAIN db.reqs /\ db.reqs[r] = "pending"
  /\ db' = [db EXCEPT !.reqs[r] = "error"]
  /\ calls' = [c \in Slots |->
                IF calls[c].pc = "await" /\ calls[c].awaiting = r
                THEN GetDBFailed(OpenFailed) ELSE calls[c]]
  /\ UNCHANGED <<users, files, folders, config, last, txq, minted>>

\* dbInstance.onversionchange: the handle is closed and dbInstance set to null
VersionChange ==
  /\ db.instance # NoHandle
  /\ db' = [db EXCEPT !.instance = NoHandle]
  /\ UNCHANGED <<users, files, folders, config, last, calls, txq, minted>>

\* getDB throws or rejects: the open request has settled and there is no
\* handle
StoreFails ==
  /\ db.instance = NoHandle
  /\ db.promise # NoHandle
  /\ db.reqs[db.promise] # "pending"

\* getSystemStats, whole.  With the store in reach it returns the totals, or
\* the object of its catch block when a request of a scan fires onerror
\* (requestFails).  With the store out of reach getStore throws inside the
\* async executor of `new Promise`, whose resolve and reject are then never
\* called: the awaited promise stays pending and the call never settles.
SystemStats(c, requestFails) ==
  /\ calls[c] = IdleCall
  /\ db.instance # NoHandle \/ StoreFails
  /\ calls' = [calls EXCEPT ![c] =
       IF StoreFails THEN [op |-> "systemStats", pc |-> "pending"]
       ELSE [op |-> "systemStats", pc |-> "done",
             res |-> Resolve(IF requestFails THEN ZeroStats
                             ELSE getSystemStats(users, files))]]
  /\ UNCHANGED <<users, files, folders, config, last, db, txq, minted>>

\* the caller has taken the outcome of its call; the slot is free again
Return(c) ==
  /\ calls[c].pc \in {"done", "failed"}
  /\ calls' = [calls EXCEPT ![c] = IdleCall]
  /\ UNCHANGED <<users, files, folders, config, last, db, txq, minted>>

----------------------------------------------------------------------------
(* Calls in flight.  updateUserStorage, trashFile and restoreFile each get   *)
(* one readwrite transaction from getStore and issue their get and, from    *)
(* its onsuccess, their put on it.                                          *)

StoreOf(op) == IF op = "adjustUsage" THEN "users" ELSE "files"

\* the slots with a transaction created and not finished
Live == {x \in Slots : calls[x].pc \in {"queued", "read"}}

\* no call is in flight and no outcome is waiting to be taken
Quiet == \A c \in Slots : calls[c] = IdleCall

\* the call up to the return of getStore: the transaction is created.  The
\* call keeps which calls were in flight then and what its store held.
BeginTx(c, op, arg) ==
  /\ calls[c] = IdleCall
  /\ db.instance # NoHandle
  /\ calls' = [calls EXCEPT ![c] =
       [op |-> op, pc |-> "queued", arg |-> arg, with |-> Live,
        base |-> IF StoreOf(op) = "users" THEN users ELSE files]]
  /\ txq' = [txq EXCEPT ![StoreOf(op)] = Append(@, c)]
  /\ UNCHANGED <<users, files, folders, config, last, db, minted>>

\* the get request's onsuccess: the record is in hand; when there is none
\* the call resolves and its transaction finishes
TxRead(c) ==
  /\ calls[c].pc = "queued"
  /\ TxCanRun(txq[StoreOf(calls[c].op)], c)
  /\ LET rec == IF calls[c].op = "adjustUsage"
                THEN IdIndexGet(users, calls[c].arg[1])
                ELSE StoreGet(files, calls[c].arg[1])
     IN IF rec = Undefined
        THEN /\ calls' = [calls EXCEPT ![c] =
                  [op |-> calls[c].op, pc |-> "done", res |-> Resolve(Undefined),
                   arg |-> calls[c].arg, with |-> calls[c].with,
                   base |-> calls[c].base, local |-> Undefined]]
             /\ txq' = [txq EXCEPT ![StoreOf(calls[c].op)] = TxDone(@, c)]
             /\ last' = Call(calls[c].op, calls[c].arg, Resolve(Undefined))
        ELSE /\ calls' = [calls EXCEPT ![c] =
                  [op |-> calls[c].op, pc |-> "read", arg |-> calls[c].arg,
                   with |-> calls[c].with, base |-> calls[c].base,
                   local |-> rec]]
             /\ UNCHANGED <<txq, last>>
  /\ UNCHANGED <<users, files, folders, config, db, minted>>

\* a put of the record as the store held it when the call began
Written_Stale(call) ==
  IF call.op = "adjustUsage" THEN AddBytes(call.local, call.arg[2])
  ELSE IF call.op = "trash" THEN TrashedRec(call.base[call.arg[1]])
  ELSE RestoredRec(call.base[call.arg[1]])

\* the record the call puts: its copy of the record, changed
Written(call) ==
  IF call.op = "adjustUsage" THEN AddBytes(call.local, call.arg[2])
  ELSE IF call.op = "trash" THEN TrashedRec(call.local)
  ELSE RestoredRec(call.local)

\* the put request's onsuccess: the record is stored, the call resolves and
\* its transaction finishes
TxWrite(c) ==
  /\ calls[c].pc = "read"
  /\ IF calls[c].op = "adjustUsage"
     THEN /\ users' = StorePut(users, calls[c].local.username, Written(calls[c]))
          /\ InRange(users')
          /\ UNCHANGED files
     ELSE /\ files' = StorePut(files, calls[c].arg[1], Written(calls[c]))
          /\ UNCHANGED users
  /\ calls' = [calls EXCEPT ![c] =
       [op |-> calls[c].op, pc |-> "done", res |-> Resolve(Undefined),
        arg |-> calls[c].arg, with |-> calls[c].with,
        base |-> calls[c].base, local |-> calls[c].local]]
  /\ txq' = [txq EXCEPT ![StoreOf(calls[c].op)] = TxDone(@, c)]
  /\ last' = Call(calls[c].op, calls[c].arg, Resolve(Undefined))
  /\ UNCHANGED <<folders, config, db, minted>>

----------------------------------------------------------------------------
(* Calls of more than one transaction.  addFileToDB and deleteFileFromDB    *)
(* await updateUserStorage, whose transaction on 'users' is committed when  *)
(* it resolves, and then get a transaction on 'files'; emptyTrash awaits    *)
(* getTrashedItems and then one deleteFileFromDB after the other.           *)

\* the owner whose storageUsed the call adjusts next, and by how much
OwnerOf(call) ==
  IF call.op = "upload" THEN call.arg[1].ownerId
  ELSE IF call.op = "purge" THEN call.arg[2]
  ELSE call.arg[1]

\* an emptyTrash that skips a file of its list that is not stored, or not
\* trashed, any more
Item_Rechecked(call, fs) ==
  LET file == StoreGet(fs, call.list[call.i].id) IN
  IF file # Undefined /\ file.isTrashed THEN call.list[call.i]
  ELSE [id |-> NullId, size |-> 0]

\* the file of emptyTrash's list whose turn it is: `for (const file of files)`
Item(call, fs) == call.list[call.i]

BytesOf(call, fs) ==
  IF call.op = "upload" THEN call.arg[1].size
  ELSE IF call.op = "purge" THEN 0 - call.arg[3]
  ELSE 0 - Item(call, fs).size

\* the key the call adds or deletes in 'files'
KeyOf(call, fs) ==
  IF call.op = "upload" THEN call.arg[1].id
  ELSE IF call.op = "purge" THEN call.arg[1]
  ELSE Item(call, fs).id

\* a first step that leaves the quota write for later
Adjusted_Deferred(us, userId, bytesToAdd) == us

\* the first step's write: await updateUserStorage(ownerId, +-size)
Adjusted(us, userId, bytesToAdd) == updateUserStorage(us, userId, bytesToAdd)

\* addFileToDB is called
BeginUpload(c, file) ==
  /\ calls[c] = IdleCall
  /\ calls' = [calls EXCEPT ![c] =
       [i |-> 0, op |-> "upload", pc |-> "adjust", list |-> <<>>, arg |-> <<file>>]]
  /\ UNCHANGED <<users, files, folders, config, last, db, txq, minted>>

\* deleteFileFromDB is called
BeginPurge(c, id, ownerId, size) ==
  /\ calls[c] = IdleCall
  /\ calls' = [calls EXCEPT ![c] =
       [i |-> 0, op |-> "purge", pc |-> "adjust",
        list |-> <<>>, arg |-> <<id, ownerId, size>>]]
  /\ UNCHANGED <<users, files, folders, config, last, db, txq, minted>>

\* emptyTrash is called
BeginEmptyTrash(c, ownerId) ==
  /\ calls[c] = IdleCall
  /\ calls' = [calls EXCEPT ![c] =
       [i |-> 0, op |-> "emptyTrash", pc |-> "scan", list |-> <<>>, arg |-> <<ownerId>>]]
  /\ UNCHANGED <<users, files, folders, config, last, db, txq, minted>>

\* getTrashedItems has resolved: the list of the loop is fixed.  With the
\* store out of reach getStore throws and emptyTrash rejects.
StepScan(c) ==
  /\ calls[c].pc = "scan"
  /\ db.instance # NoHandle \/ StoreFails
  /\ LET list == getTrashedItems(files, folders, OwnerOf(calls[c])).files IN
     calls' = [calls EXCEPT ![c] =
       IF StoreFails
       THEN [i |-> 0, op |-> "emptyTrash", pc |-> "failed",
             res |-> Reject(InitFailed), list |-> <<>>, arg |-> calls[c].arg]
       ELSE IF list = <<>>
       THEN [i |-> 0, op |-> "emptyTrash", pc |-> "done",
             res |-> Resolve(Undefined), list |-> <<>>, arg |-> calls[c].arg]
       ELSE [i |-> 1, op |-> "emptyTrash", pc |-> "adjust",
             list |-> list, arg |-> calls[c].arg]]
  /\ UNCHANGED <<users, files, folders, config, last, db, txq, minted>>

\* updateUserStorage has resolved: the quota write is committed, or, with
\* the store out of reach, its catch block has swallowed the failure
StepAdjust(c) ==
  /\ calls[c].pc = "adjust"
  /\ db.instance # NoHandle \/ StoreFails
  /\ users' = IF StoreFails THEN users
               ELSE Adjusted(users, OwnerOf(calls[c]), BytesOf(calls[c], files))
  /\ InRange(users')
  /\ calls' = [calls EXCEPT ![c] =
       [i |-> calls[c].i, op |-> calls[c].op, pc |-> "store",
        list |-> calls[c].list, arg |-> calls[c].arg]]
  /\ UNCHANGED <<files, folders, config, last, db, txq, minted>>

\* the request on 'files' has settled: store.add(file) or store.delete(id).
\* The call keeps the record the key held before (`had`).  An emptyTrash
\* goes on to the next file of its list.  With the store out of reach
\* getStore throws and the call rejects.
StepStore(c) ==
  /\ calls[c].pc = "store"
  /\ db.instance # NoHandle \/ StoreFails
  /\ LET call == calls[c]
         key == KeyOf(call, files)
         settled(pc, res) ==
           [i |-> call.i, op |-> call.op, pc |-> pc, res |-> res,
            list |-> call.list, arg |-> call.arg, had |-> StoreGet(files, key)]
     IN IF StoreFails
        THEN /\ files' = files
             /\ calls' = [calls EXCEPT ![c] = settled("failed", Reject(InitFailed))]
        ELSE IF call.op = "upload"
        THEN IF key \notin DOMAIN files
             THEN /\ files' = StorePut(files, key, call.arg[1])
                  /\ calls' = [calls EXCEPT ![c] = settled("done", Resolve(Undefined))]
             ELSE /\ files' = files
                  /\ calls' = [calls EXCEPT ![c] =
                        settled("failed", Reject(ConstraintError))]
        ELSE /\ files' = StoreDelete(files, key)
             /\ calls' = [calls EXCEPT ![c] =
                  IF call.op = "emptyTrash" /\ call.i < Len(call.list)
                  THEN [i |-> call.i + 1, op |-> call.op, pc |-> "adjust",
                        list |-> call.list, arg |-> call.arg,
                        had |-> StoreGet(files, key)]
                  ELSE settled("done", Resolve(Undefined))]
  /\ UNCHANGED <<users, folders, config, last, db, txq, minted>>

\* the pro plan's storageLimit (1 TB), on the scale of the file sizes
ProLimit == 2 * StorageLimit

\* the record the App passes to updateUser: handleAdminUpdateUser's
\* { ...targetUser, ...updates } with isActive cleared, or the plan upgrade's
\* { ...user, plan: 'pro', storageLimit: 1 TB }
Edited(copy, kind) ==
  IF kind = "block" THEN [copy EXCEPT !.isActive = FALSE]
  ELSE [copy EXCEPT !.storageLimit = ProLimit, !.plan = "pro"]

\* an updateUser that keeps the storageUsed of the stored record
PutUser_KeepsUsage(us, user) ==
  LET held == StoreGet(us, user.username) IN
  IF held = Undefined THEN user
  ELSE [user EXCEPT !.storageUsed = held.storageUsed]

\* the record updateUser puts: store.put(user), the caller's record whole
PutUser(us, user) == user

\* the App reads the user record it will edit later: getAllUsers into
\* adminUsers, or the session's `user`
BeginEdit(c, k) ==
  /\ calls[c] = IdleCall
  /\ k \in DOMAIN users
  /\ calls' = [calls EXCEPT ![c] = [op |-> "editUser", pc |-> "edit", copy |-> users[k]]]
  /\ UNCHANGED <<users, files, folders, config, last, db, txq, minted>>

\* the edit is made: updateUser with the copy read before.  The call keeps
\* the record the username held before the put (`had`).
PutEdit(c, kind) ==
  /\ calls[c].pc = "edit"
  /\ db.instance # NoHandle
  /\ LET user == Edited(calls[c].copy, kind)
         r == updateUser(users, PutUser(users, user))
     IN /\ users' = r.users
        /\ calls' = [calls EXCEPT ![c] =
             [op |-> "editUser", pc |-> "done", res |-> r.res,
              had |-> StoreGet(users, user.username), copy |-> calls[c].copy]]
  /\ UNCHANGED <<files, folders, config, last, db, txq, minted>>

----------------------------------------------------------------------------
(* Specifications *)

\* Spec: accounts, uploads and the trash lifecycle, with the quota they move
Next ==
  \/ Register(NewUser("u-1", "alice", "password"))
  \/ SeedAdmin
  \/ \E id \in FileIds, o \in UserIds, sz \in Sizes : Upload(NewFile(id, o, Root, sz))
  \/ \E id \in FileIds : Trash(id)
  \/ \E id \in FileIds : Restore(id)
  \/ \E id \in FileIds, o \in UserIds, sz \in Sizes : Purge(id, o, sz)
  \/ \E o \in UserIds : EmptyTrash(o)

Spec == Init /\ [][Next]_vars

\* SpecAuth: the 'users' store under every user operation
NextAuth ==
  \/ \E u \in Usernames, i \in UserIds, p \in Secrets : Register(NewUser(i, u, p))
  \/ SeedAdmin
  \/ \E u \in Usernames, i \in UserIds, p \in Secrets, a \in BOOLEAN :
       UpdateUser(User(i, u, p, 0, a))
  \/ \E u \in Usernames : DeleteUser(u)
  \/ \E u \in Usernames, p \in Secrets : Authenticate(u, p)

SpecAuth == Init /\ [][NextAuth]_vars

\* SpecShare: the share and trash fields of the files of one owner
NextShare ==
  \/ \E id \in FileIds : Upload(NewFile(id, "u-1", Root, 1))
  \/ \E id \in FileIds : Trash(id)
  \/ \E id \in FileIds : Restore(id)
  \/ \E id \in FileIds : Purge(id, "u-1", 1)
  \/ \E id \in FileIds, b \in BOOLEAN, t \in Tokens \cup {NoToken} : SetShare(id, b, t)
  \/ \E t \in Tokens : ResolveShare(t)

SpecShare == Init /\ [][NextShare]_vars

\* SpecList: files and folders of mixed owner, parent and trash state, each
\* created under an id not in use
Parents == {Root, "f-1"}

NextList ==
  \/ \E id \in FileIds \ DOMAIN files, o \in UserIds, p \in Parents :
       Upload(NewFile(id, o, p, 1))
  \/ \E id \in DOMAIN files : Trash(id)
  \/ \E id \in DOMAIN files : Restore(id)
  \/ \E id \in DOMAIN files : Purge(id, files[id].ownerId, 1)
  \/ \E id \in FolderIds \ DOMAIN folders, o \in UserIds,
        p \in Parents \cup {NullId}, t \in BOOLEAN :
       CreateFolder(Folder(id, o, p, t))

SpecList == Init /\ [][NextList]_vars

\* SpecLife: the lifecycle of the files of two owners, one of them registered
NextLife ==
  \/ Register(NewUser("u-1", "alice", "password"))
  \/ \E id \in FileIds, o \in UserIds, p \in Parents : Upload(NewFile(id, o, p, 1))
  \/ \E id \in FileIds : Trash(id)
  \/ \E id \in FileIds : Restore(id)
  \/ \E id \in FileIds, o \in UserIds : Purge(id, o, 1)
  \/ \E o \in UserIds : EmptyTrash(o)

SpecLife == Init /\ [][NextLife]_vars

\* SpecApp: the engine as the App's handlers drive it.  The initialization
\* effect seeds the admin on every start; handleAuth registers; an upload is by
\* a stored user under a file id not in use; handleDeleteFile trashes a listed
\* file, and in the trash view purges a trashed one with its own owner and
\* size; handleShareToggle enables with a token and disables without one.
NextApp ==
  \/ SeedAdmin
  \/ Register(NewUser("u-1", "alice", "password"))
  \/ \E id \in FileIds \ DOMAIN files, k \in DOMAIN users, sz \in Sizes :
       Upload(NewFile(id, users[k].id, Root, sz))
  \/ \E id \in DOMAIN files : ~files[id].isTrashed /\ Trash(id)
  \/ \E id \in DOMAIN files : files[id].isTrashed /\ Restore(id)
  \/ \E id \in DOMAIN files :
       files[id].isTrashed /\ Purge(id, files[id].ownerId, files[id].size)
  \/ \E k \in DOMAIN users : EmptyTrash(users[k].id)
  \/ \E id \in DOMAIN files :
       ~files[id].isTrashed /\ ~files[id].isShared /\ SetShare(id, TRUE, "t1")
  \/ \E id \in DOMAIN files :
       ~files[id].isTrashed /\ files[id].isShared /\ SetShare(id, FALSE, NoToken)

SpecApp == Init /\ [][NextApp]_vars

\* SpecSoft: calls that name a file or a user that is not stored, next to
\* calls that name a stored one; 'admin' never has a user record here
Deltas == {0 - 1, 1}

NextSoft ==
  \/ Register(NewUser("u-1", "alice", "password"))
  \/ \E o \in UserIds, d \in Deltas : AdjustUsage(o, d)
  \/ \E id \in FileIds, o \in UserIds : Upload(NewFile(id, o, Root, 1))
  \/ \E id \in FileIds : Trash(id)
  \/ \E id \in FileIds : Restore(id)
  \/ \E id \in FileIds, o \in UserIds : Purge(id, o, 1)

SpecSoft == Init /\ [][NextSoft]_vars

\* SpecTrash: the trash of two registered owners, with files of both sizes
\* and folders, emptied per owner
NextTrash ==
  \/ Register(NewUser("u-1", "alice", "password"))
  \/ Register(AdminUser)
  \/ \E id \in FileIds \ DOMAIN files, o \in UserIds, sz \in Sizes :
       Upload(NewFile(id, o, Root, sz))
  \/ \E id \in DOMAIN files : Trash(id)
  \/ \E id \in DOMAIN files : Restore(id)
  \/ \E o \in UserIds, t \in BOOLEAN :
       "f-1" \notin DOMAIN folders /\ CreateFolder(Folder("f-1", o, Root, t))
  \/ \E o \in UserIds : EmptyTrash(o)

SpecTrash == Init /\ [][NextTrash]_vars

\* SpecConfig: the 'config' store.  A config populates provider and any of
\* the optional fields; the App loads the stored config (defaulting its
\* rootPath), lets the admin edit it and saves it back.
Providers == {"local", "aws", "wasabi", "google_drive"}
OptionalFields == {"rootPath", "bucket", "accessKey", "clientId"}

CDNConfig(provider, populated) ==
  [f \in {"provider"} \cup populated |->
     IF f = "provider" THEN provider
     ELSE IF f = "rootPath" THEN "content" ELSE "x"]

\* setCdnConfig({ ...conf, rootPath: conf.rootPath || 'public/content' })
LoadedConfig(conf) ==
  [f \in DOMAIN conf \cup {"rootPath"} |->
     IF f = "rootPath" /\ f \notin DOMAIN conf THEN "public/content" ELSE conf[f]]

\* handleSaveConfig: saveCDNConfig(cdnConfig), the loaded config with the
\* provider the admin has picked
HandleSaveConfig(provider) ==
  /\ last.op = "getConfig"
  /\ PutConfig([LoadedConfig(last.res.value) EXCEPT !["provider"] = provider])

NextConfig ==
  \/ \E p \in Providers, o \in SUBSET OptionalFields : PutConfig(CDNConfig(p, o))
  \/ \E p \in Providers : HandleSaveConfig(p)
  \/ GetConfig

SpecConfig == Init /\ [][NextConfig]_vars

\* SpecAdmin: SpecApp with the admin's global file deletion
NextAdmin ==
  \/ NextApp
  \/ \E id \in DOMAIN files : AdminDeleteFile(id)

SpecAdmin == Init /\ [][NextAdmin]_vars

\* SpecOpen: calls on the connection singleton from the loaded module on,
\* with the open request succeeding or failing and the handle closed by a
\* version change
NextOpen ==
  \/ \E c \in Slots : GetDB(c)
  \/ \E r \in DOMAIN db.reqs : OpenSuccess(r)
  \/ \E r \in DOMAIN db.reqs : OpenError(r)
  \/ VersionChange
  \/ \E c \in Slots : Return(c)

SpecOpen == InitCold /\ [][NextOpen]_vars

\* SpecType: getFileType on the empty mime type and on every string made of
\* one or two of the words the tests look for and two they do not
Words ==
  {ImagePrefix, VideoPrefix, AudioPrefix, Pdf, Text, Document, Zip, Rar, SevenZ,
   <<"x", "-">>, <<"a", "p", "p", "/">>}

Mimes == {NoMime} \cup Words \cup {a \o b : a \in Words, b \in Words}

NextType == \E m \in Mimes : Classify(m)

SpecType == Init /\ [][NextType]_vars

\* SpecRace: two callers issue updateUserStorage, trashFile and restoreFile
\* calls that overlap; the stores are set up while no call is in flight.
\* Every request of a running transaction gets its callback.
RaceSlots == {"c1", "c2"}
RacedFile == "fi-1"

TxStep == \E c \in Slots : TxRead(c) \/ TxWrite(c)

NextRace ==
  \/ Quiet /\ Register(NewUser("u-1", "alice", "password"))
  \/ \E id \in FileIds \ DOMAIN files : Quiet /\ Upload(NewFile(id, "u-1", Root, 1))
  \/ Quiet /\ SetShare(RacedFile, TRUE, "t1")
  \/ \E c \in RaceSlots, d \in Deltas : BeginTx(c, "adjustUsage", <<"u-1", d>>)
  \/ \E c \in RaceSlots : BeginTx(c, "trash", <<RacedFile>>)
  \/ \E c \in RaceSlots : BeginTx(c, "restore", <<RacedFile>>)
  \/ \E c \in Slots : TxRead(c)
  \/ \E c \in Slots : TxWrite(c)
  \/ \E c \in Slots : Return(c)

SpecRace == Init /\ [][NextRace]_vars /\ WF_vars(TxStep)

\* SpecSteps: one upload or purge at a time for a registered owner, step by
\* step, the upload under a free id, the purge with the owner
\* and size of the stored record; a version change may close the handle
\* between the steps
StepSlot == "c1"

NextSteps ==
  \/ Quiet /\ db.instance # NoHandle /\ Register(NewUser("u-1", "alice", "password"))
  \/ \E id \in FileIds \ DOMAIN files, sz \in Sizes :
       "alice" \in DOMAIN users /\ BeginUpload(StepSlot, NewFile(id, "u-1", Root, sz))
  \/ \E id \in DOMAIN files :
       BeginPurge(StepSlot, id, files[id].ownerId, files[id].size)
  \/ StepAdjust(StepSlot)
  \/ StepStore(StepSlot)
  \/ VersionChange
  \/ Return(StepSlot)

SpecSteps == Init /\ [][NextSteps]_vars

\* SpecEdit: a registered user whose storageUsed is adjusted while the App
\* holds copies of the record and edits them: the admin panel (c1) blocks
\* the user once, the user's session (c2) upgrades the plan once
EditSlots == {"c1", "c2"}
EditOf(c) == IF c = "c1" THEN "block" ELSE "upgrade"

NextEdit ==
  \/ Register(NewUser("u-1", "alice", "password"))
  \/ \E d \in {0 - 1, 1} : AdjustUsage("u-1", d)
  \/ \E c \in EditSlots : BeginEdit(c, "alice")
  \/ \E c \in EditSlots : PutEdit(c, EditOf(c))

SpecEdit == Init /\ [][NextEdit]_vars

\* SpecSnap: one owner's files of size 1 uploaded and trashed while no
\* emptyTrash is in flight; emptyTrash calls step by step, with restores
\* and single purges of trashed files (handleDeleteFile in the trash view)
\* between their steps
SnapSlots == {"c1", "c2"}

NextSnap ==
  \/ Quiet /\ Register(NewUser("u-1", "alice", "password"))
  \/ \E id \in FileIds \ DOMAIN files :
       Quiet /\ "alice" \in DOMAIN users /\ Upload(NewFile(id, "u-1", Root, 1))
  \/ \E id \in DOMAIN files : Quiet /\ ~files[id].isTrashed /\ Trash(id)
  \/ \E id \in DOMAIN files : files[id].isTrashed /\ Restore(id)
  \/ \E id \in DOMAIN files :
       files[id].isTrashed /\ Purge(id, files[id].ownerId, files[id].size)
  \/ \E c \in SnapSlots : BeginEmptyTrash(c, "u-1")
  \/ \E c \in SnapSlots : StepScan(c)
  \/ \E c \in SnapSlots : StepAdjust(c)
  \/ \E c \in SnapSlots : StepStore(c)
  \/ \E c \in SnapSlots : Return(c)

SpecSnap == Init /\ [][NextSnap]_vars

\* SpecStats: getSystemStats over up to five files of sizes 1 and MaxSize,
\* the first of them trashed or not, and up to two users, before and after
\* a version change closes the handle.  The other calls are made while the
\* store is in reach.
StatOrder == <<"fi-1", "fi-2", "fi-3", "fi-4", "fi-5">>

NextStats ==
  \/ db.instance # NoHandle /\ Register(NewUser("u-1", "alice", "password"))
  \/ db.instance # NoHandle /\ SeedAdmin
  \/ \E i \in DOMAIN StatOrder :
       /\ db.instance # NoHandle
       /\ \A j \in 1..(i - 1) : StatOrder[j] \in DOMAIN files
       /\ StatOrder[i] \notin DOMAIN files
       /\ Upload(NewFile(StatOrder[i], "u-2", Root, IF i % 2 = 1 THEN 1 ELSE MaxSize))
  \/ db.instance # NoHandle /\ Trash(StatOrder[1])
  \/ \E c \in RaceSlots, requestFails \in BOOLEAN : SystemStats(c, requestFails)
  \/ VersionChange
  \/ \E c \in RaceSlots : Return(c)

SpecStats == Init /\ [][NextStats]_vars

\* SpecToggle: files of one owner shared and unshared with the toggle,
\* trashed and restored, and their tokens resolved
NextToggle ==
  \/ \E id \in FileIds \ DOMAIN files : Upload(NewFile(id, "u-1", Root, 1))
  \/ \E id \in DOMAIN files : ~files[id].isTrashed /\ Trash(id)
  \/ \E id \in DOMAIN files : files[id].isTrashed /\ Restore(id)
  \/ \E id \in DOMAIN files : ShareToggle(id)
  \/ \E t \in Range(TokenOrder) : ResolveShare(t)

SpecToggle == Init /\ [][NextToggle]_vars

\* SpecFrame: the records of one owner, who is registered and deleted: a
\* file in the root, a file in folder f-1, and that folder.  Uploads under a
\* stored id are made too.
NextFrame ==
  \/ Register(NewUser("u-1", "alice", "password"))
  \/ \E u \in Usernames : DeleteUser(u)
  \/ \E id \in FileIds :
       Upload(NewFile(id, "u-1", IF id = "fi-1" THEN Root ELSE "f-1", 1))
  \/ \E id \in DOMAIN files : Trash(id)
  \/ \E id \in DOMAIN files : Restore(id)
  \/ \E id \in DOMAIN files, b \in BOOLEAN, t \in {"t1", NoToken} : SetShare(id, b, t)
  \/ \E id \in DOMAIN files : Purge(id, files[id].ownerId, files[id].size)
  \/ \E t \in BOOLEAN :
       "f-1" \notin DOMAIN folders /\ CreateFolder(Folder("f-1", "u-1", Root, t))

SpecFrame == Init /\ [][NextFrame]_vars

\* SpecSeed: the 'users' store as the App drives it: the seeding of every
\* start, a registration, the admin's edit of a stored user (the block
\* switch, a new password), the plan upgrade, the admin's deletion of a
\* user, and quota moved by uploads
NextSeed ==
  \/ SeedAdmin
  \/ Register(NewUser("u-1", "alice", "password"))
  \/ \E k \in DOMAIN users : UpdateUser([users[k] EXCEPT !.isActive = ~@])
  \/ \E k \in DOMAIN users : UpdateUser([users[k] EXCEPT !.password = "hunter2"])
  \/ \E k \in DOMAIN users : UpdateUser([users[k] EXCEPT !.plan = "pro"])
  \/ \E k \in DOMAIN users : DeleteUser(k)
  \/ \E k \in DOMAIN users : AdjustUsage(users[k].id, 1)

SpecSeed == Init /\ [][NextSeed]_vars

----------------------------------------------------------------------------
(* Claims *)

\* the bytes of the file records of `fs` owned by ownerId, trashed or not
RECURSIVE OwnedBytesFrom(_, _, _)
OwnedBytesFrom(fs, ownerId, i) ==
  IF i > Len(FileOrder) THEN 0
  ELSE (IF FileOrder[i] \in DOMAIN fs /\ fs[FileOrder[i]].ownerId = ownerId
        THEN fs[FileOrder[i]].size ELSE 0)
       + OwnedBytesFrom(fs, ownerId, i + 1)

OwnedBytes(fs, ownerId) == OwnedBytesFrom(fs, ownerId, 1)

\* C1: between calls, every user's storageUsed is the sum of the sizes of
\* the file records that user owns, trashed or not.
C1_QuotaAccounting ==
  \A k \in DOMAIN users : users[k].storageUsed = OwnedBytes(files, users[k].id)

\* C2: an upload that stored its record, followed at once by the purge of that
\* file with its owner and size, leaves no record of the file and leaves the
\* owner's storageUsed (and whether the owner has a user record) as before
\* the upload.
C2_UploadPurgeRoundTrip ==
  [][\A id \in FileIds, o \in UserIds, sz \in Sizes :
       (UndoesUpload(id, o, sz) /\ Purge(id, o, sz)) =>
          /\ id \notin DOMAIN files'
          /\ (last.pre = Undefined) = (IdIndexGet(users', o) = Undefined)
          /\ last.pre # Undefined =>
               IdIndexGet(users', o).storageUsed = last.pre.storageUsed]_vars

\* an upload by a user who already holds bytes has just been undone by a purge
C2_Witness ==
  /\ last.op = "purge" /\ last.id # NullId
  /\ last.pre # Undefined /\ last.pre.storageUsed > 0
  /\ IdIndexGet(users, last.pre.id) = last.pre

\* the file record is in the owner's active listing of its parent
InActiveListing(fs, f) ==
  f \in Range(getFilesFromDB(fs, f.parentId, f.ownerId))

\* the file record is in the files of the owner's trash listing
InTrashListing(fs, ds, f) ==
  f \in Range(getTrashedItems(fs, ds, f.ownerId).files)

\* a record with this id is in some active listing or some trash listing
ListedSomewhere(fs, ds, id) ==
  \/ \E p \in {Root} \cup FolderIds, o \in UserIds :
       \E f \in Range(getFilesFromDB(fs, p, o)) : f.id = id
  \/ \E o \in UserIds :
       \E f \in Range(getTrashedItems(fs, ds, o).files) : f.id = id

\* C3: trash of an existing file leaves it trashed and not shared, whatever
\* its share state was; restore of an existing file leaves it not trashed and
\* shared only if it was shared before the restore, so the file stays
\* unshared through a trash/restore cycle.
C3_TrashClearsShare ==
  [][\A id \in DOMAIN files :
       /\ Trash(id) => files'[id].isTrashed /\ ~files'[id].isShared
       /\ Restore(id) =>
            /\ ~files'[id].isTrashed
            /\ files'[id].isShared => files[id].isShared
       /\ (last.op = "trash" /\ files[id].isTrashed /\ ~files[id].isShared
           /\ Restore(id)) => ~files'[id].isTrashed /\ ~files'[id].isShared]_vars

\* a file that was shared (its shareCreatedAt is still set) has been trashed
\* and restored, and is not shared
C3_Witness ==
  /\ last.op = "restore"
  /\ \E id \in DOMAIN files :
       /\ ~files[id].isTrashed /\ ~files[id].isShared
       /\ files[id].shareCreatedAt /\ files[id].shareToken \in Tokens

\* C4: for every token, getFileByShareToken resolves null or a stored record
\* that is shared, carries that token and is not trashed; never a trashed
\* record, even one that still carries the token, never one whose sharing is
\* off, and null when no record carries the token.
C4_ResolveShareSound ==
  \A t \in Tokens :
    LET r == getFileByShareToken(files, t) IN
    /\ r # Null =>
         /\ r.id \in DOMAIN files /\ files[r.id] = r
         /\ r.isShared /\ r.shareToken = t /\ ~r.isTrashed
    /\ (\A id \in DOMAIN files : files[id].shareToken # t) => r = Null
    /\ (last.op = "resolveShare" /\ last.res.value # Null) =>
         /\ last.res.settled = "resolve"
         /\ last.res.value.id \in DOMAIN files
         /\ files[last.res.value.id] = last.res.value
         /\ last.res.value.isShared /\ ~last.res.value.isTrashed

\* resolveShare has answered null while a trashed record carries a token and
\* has its share flag on
C4_Witness ==
  /\ last.op = "resolveShare" /\ last.res.value = Null
  /\ \E id \in DOMAIN files :
       /\ files[id].isTrashed /\ files[id].isShared
       /\ files[id].shareToken \in Tokens
       /\ getFileByShareToken(files, files[id].shareToken) = Null

\* no record other than `id` is a match for the token
OnlyCarrier(fs, id, t) ==
  \A g \in DOMAIN fs \ {id} : ~ShareMatch(fs[g], t)

\* C5 as stated: the token of any non-trashed shared file resolves to that
\* file, and a resolveShare call changes no record and answers the same when
\* repeated.
C5_Original ==
  /\ [](\A id \in DOMAIN files, t \in Tokens :
         ShareMatch(files[id], t) => getFileByShareToken(files, t) = files[id])
  /\ [][\A t \in Tokens : ResolveShare(t) =>
          /\ UNCHANGED <<users, files, folders>>
          /\ Resolved(last'.res, getFileByShareToken(files', t))]_vars

\* C5 (amended): a token carried by exactly one non-trashed shared file
\* resolves to that file; if several carry it, to the first of them in key
\* order; a resolveShare call changes no record and answers the same when
\* repeated.
C5_ResolveShareComplete ==
  /\ [](\A id \in DOMAIN files, t \in Tokens :
         ShareMatch(files[id], t) =>
           /\ getFileByShareToken(files, t) # Null
           /\ ShareMatch(getFileByShareToken(files, t), t)
           /\ OnlyCarrier(files, id, t) => getFileByShareToken(files, t) = files[id]
           /\ \A i, j \in DOMAIN FileOrder :
                (FileOrder[j] = id /\ getFileByShareToken(files, t).id = FileOrder[i])
                  => i <= j)
  /\ [][\A t \in Tokens : ResolveShare(t) =>
          /\ UNCHANGED <<users, files, folders>>
          /\ Resolved(last'.res, getFileByShareToken(files', t))]_vars

\* resolveShare has answered with the one record that carries the token
\* while another record is shared under another token
C5_Witness ==
  /\ last.op = "resolveShare" /\ last.res.value # Null
  /\ OnlyCarrier(files, last.res.value.id, last.res.value.shareToken)
  /\ \E g \in DOMAIN files : g # last.res.value.id /\ files[g].isShared

\* C6 as stated: setShare(F, true, T) makes T resolve to F; a following
\* setShare(F, false) makes T resolve to null; a following setShare(F, true,
\* T2) with T2 # T leaves T resolving to null and makes T2 resolve to F.
C6_Original ==
  [][\A id \in DOMAIN files, t \in Tokens :
       /\ SetShare(id, TRUE, t) => getFileByShareToken(files', t) = files'[id]
       /\ (getFileByShareToken(files, t) = files[id] /\ SetShare(id, FALSE, NoToken))
            => getFileByShareToken(files', t) = Null
       /\ \A t2 \in Tokens \ {t} :
            (getFileByShareToken(files, t) = Null /\ SetShare(id, TRUE, t2)) =>
              /\ getFileByShareToken(files', t) = Null
              /\ getFileByShareToken(files', t2) = files'[id]]_vars

\* C6 (amended): for a file F that is not trashed and tokens T, T2 that no
\* other shared, non-trashed file carries: setShare(F, true, T) makes T
\* resolve to F; a following setShare(F, false) makes T resolve to null; a
\* following setShare(F, true, T2) with T2 # T leaves T resolving to null and
\* makes T2 resolve to F.
C6_ShareRevocation ==
  [][\A id \in DOMAIN files, t \in Tokens :
       /\ (~files[id].isTrashed /\ OnlyCarrier(files, id, t) /\ SetShare(id, TRUE, t))
            => getFileByShareToken(files', t) = files'[id]
       /\ (getFileByShareToken(files, t) = files[id] /\ OnlyCarrier(files, id, t)
           /\ SetShare(id, FALSE, NoToken))
            => getFileByShareToken(files', t) = Null
       /\ \A t2 \in Tokens \ {t} :
            (/\ getFileByShareToken(files, t) = Null
             /\ ~files[id].isTrashed /\ OnlyCarrier(files, id, t2)
             /\ SetShare(id, TRUE, t2)) =>
              /\ getFileByShareToken(files', t) = Null
              /\ getFileByShareToken(files', t2) = files'[id]]_vars

\* the state the sequence ends in: a setShare has settled, a file resolves
\* under t2, and t1, which no record carries any more, resolves to null
C6_Witness ==
  /\ last.op = "setShare" /\ last.res.settled = "resolve"
  /\ \E id \in DOMAIN files :
       /\ getFileByShareToken(files, "t2") = files[id]
       /\ getFileByShareToken(files, "t1") = Null
       /\ \A g \in DOMAIN files : files[g].shareToken # "t1"

\* the records of a store that a listing of (parentId, ownerId) is to hold
Listed(store, parentId, ownerId) ==
  {store[k] : k \in {k \in DOMAIN store :
                       /\ store[k].parentId = parentId
                       /\ store[k].ownerId = ownerId
                       /\ ~store[k].isTrashed}}

\* C7: for every parent and owner, getFilesFromDB and getFoldersFromDB return,
\* each record once, exactly the stored records with that parentId and that
\* ownerId that are not trashed.
C7_ListingFilter ==
  \A p \in Parents, o \in UserIds :
    /\ Range(getFilesFromDB(files, p, o)) = Listed(files, p, o)
    /\ Len(getFilesFromDB(files, p, o)) = Cardinality(Listed(files, p, o))
    /\ Range(getFoldersFromDB(folders, p, o)) = Listed(folders, p, o)
    /\ Len(getFoldersFromDB(folders, p, o)) = Cardinality(Listed(folders, p, o))

\* both stores hold records of two owners, a trashed record next to a listed
\* one under the same parent and owner, and a folder with a null parent
C7_Witness ==
  /\ \E a, b \in DOMAIN files :
       /\ files[a].ownerId # files[b].ownerId
       /\ files[a].isTrashed /\ ~files[b].isTrashed
       /\ files[a].parentId = files[b].parentId
       /\ getFilesFromDB(files, files[b].parentId, files[b].ownerId) = <<files[b]>>
  /\ \E a, b \in DOMAIN folders :
       /\ folders[a].ownerId = folders[b].ownerId
       /\ folders[a].isTrashed /\ ~folders[b].isTrashed
       /\ folders[a].parentId = folders[b].parentId
       /\ getFoldersFromDB(folders, folders[b].parentId, folders[b].ownerId)
            = <<folders[b]>>

\* C8: a file just uploaded is in its owner's active listing and not in the
\* owner's trash listing; trash of an existing file takes it out of the active
\* listing and into the owner's trash listing; after purge no listing holds a
\* record of that id and getFileContent answers undefined; no file is ever in
\* its owner's active listing and trash listing at once.
C8_LifecycleVisibility ==
  /\ [](\A id \in DOMAIN files :
          ~(InActiveListing(files, files[id])
            /\ InTrashListing(files, folders, files[id])))
  /\ []((last.op = "upload" /\ last.res.settled = "resolve") =>
          /\ last.id \in DOMAIN files
          /\ InActiveListing(files, files[last.id])
          /\ ~InTrashListing(files, folders, files[last.id]))
  /\ [][\A id \in FileIds :
          /\ (id \in DOMAIN files /\ Trash(id)) =>
               /\ ~InActiveListing(files', files'[id])
               /\ InTrashListing(files', folders', files'[id])
          /\ \A o \in UserIds, sz \in Sizes :
               Purge(id, o, sz) =>
                 /\ ~ListedSomewhere(files', folders', id)
                 /\ getFileContent(files', id) = Undefined]_vars

\* a trash has settled: one file sits in its owner's trash listing while
\* another file of that owner is in the active listing
C8_Witness ==
  /\ last.op = "trash"
  /\ \E a, b \in DOMAIN files :
       /\ files[a].ownerId = files[b].ownerId
       /\ InTrashListing(files, folders, files[a])
       /\ ~InActiveListing(files, files[a])
       /\ InActiveListing(files, files[b])
       /\ getFileContent(files, a) = Blob

\* C9 as stated: register of a username that is stored rejects with
\* DuplicateIdentity and leaves 'users' as it was; register of a username
\* that is not stored resolves and adds exactly that record.
C9_Original ==
  [][\A u \in Usernames, i \in UserIds, p \in Secrets :
       Register(NewUser(i, u, p)) =>
         IF u \in DOMAIN users
         THEN Rejected(last'.res, DuplicateIdentity) /\ users' = users
         ELSE /\ Resolved(last'.res, Undefined)
              /\ users' = StorePut(users, u, NewUser(i, u, p))]_vars

\* C9 (amended): register of a username that is stored, or of a record whose
\* id another stored user holds, rejects with DuplicateIdentity and leaves
\* 'users' as it was; register of a record whose username and id are both
\* new resolves and adds exactly that record.
C9_RegisterDuplicate ==
  [][\A u \in Usernames, i \in UserIds, p \in Secrets :
       Register(NewUser(i, u, p)) =>
         IF u \in DOMAIN users \/ (\E k \in DOMAIN users : users[k].id = i)
         THEN Rejected(last'.res, DuplicateIdentity) /\ users' = users
         ELSE /\ Resolved(last'.res, Undefined)
              /\ DOMAIN users' = DOMAIN users \cup {u}
              /\ users'[u] = NewUser(i, u, p)
              /\ \A k \in DOMAIN users : users'[k] = users[k]]_vars

\* a register has been rejected as a duplicate and the stored user still has
\* a secret or an active flag that no new registration carries over
C9_Witness ==
  /\ Rejected(last.res, DuplicateIdentity) /\ last.op = "register"
  /\ \E k \in DOMAIN users : ~users[k].isActive

\* C10: authenticate resolves the stored user exactly when the username is
\* stored, the secret equals the stored one and the account is active;
\* rejects with AccountDisabled exactly when the username is stored, the
\* secret matches and isActive is false; resolves null in every other case;
\* and changes no store.
C10_Authenticate ==
  [][\A u \in Usernames, p \in Secrets :
       Authenticate(u, p) =>
         LET match == u \in DOMAIN users /\ users[u].password = p IN
         /\ UNCHANGED <<users, files, folders>>
         /\ (match /\ users[u].isActive) => Resolved(last'.res, users[u])
         /\ (match /\ ~users[u].isActive) => Rejected(last'.res, AccountDisabled)
         /\ ~match => Resolved(last'.res, Null)]_vars

\* authenticate has rejected a disabled account while another account is
\* stored and active
C10_Witness ==
  /\ last.op = "authenticate" /\ Rejected(last.res, AccountDisabled)
  /\ \E k \in DOMAIN users : users[k].isActive

\* C11: setShare on a file id that is not stored rejects with NotFound and
\* leaves 'files' as it was; no record is created for the id.
C11_SetShareMissing ==
  [][\A id \in FileIds \ DOMAIN files, b \in BOOLEAN, t \in Tokens \cup {NoToken} :
       SetShare(id, b, t) =>
         /\ Rejected(last'.res, NotFound)
         /\ files' = files
         /\ id \notin DOMAIN files']_vars

\* a setShare on an id that is not stored has been rejected while another
\* file is stored
C11_Witness ==
  /\ last.op = "setShare" /\ Rejected(last.res, NotFound)
  /\ last.arg[1] \notin DOMAIN files
  /\ DOMAIN files # {}

\* C12: trash and restore on a file id that is not stored resolve, and leave
\* 'files' and 'users' as they were; no record is created for the id.
C12_SoftMissing ==
  [][\A id \in FileIds \ DOMAIN files :
       (Trash(id) \/ Restore(id)) =>
         /\ Resolved(last'.res, Undefined)
         /\ files' = files /\ users' = users
         /\ id \notin DOMAIN files']_vars

\* a trash on an id that is not stored has resolved while a file and a user
\* are stored
C12_Witness ==
  /\ last.op = "trash" /\ Resolved(last.res, Undefined)
  /\ last.arg[1] \notin DOMAIN files
  /\ DOMAIN files # {} /\ DOMAIN users # {}

\* C13: for a user id that no stored user has, updateUserStorage resolves and
\* leaves 'users' as it was; an upload for such an owner under a free file id
\* still stores the record, and a purge for such an owner still removes it;
\* neither changes 'users'.
C13_MissingOwner ==
  [][\A o \in UserIds :
       IdIndexGet(users, o) = Undefined =>
         /\ \A d \in Deltas :
              AdjustUsage(o, d) => Resolved(last'.res, Undefined) /\ users' = users
         /\ \A id \in FileIds :
              /\ Upload(NewFile(id, o, Root, 1)) =>
                   /\ users' = users
                   /\ id \notin DOMAIN files =>
                        /\ Resolved(last'.res, Undefined)
                        /\ files' = StorePut(files, id, NewFile(id, o, Root, 1))
              /\ Purge(id, o, 1) =>
                   /\ users' = users
                   /\ Resolved(last'.res, Undefined)
                   /\ id \notin DOMAIN files'
                   /\ \A g \in DOMAIN files \ {id} :
                        g \in DOMAIN files' /\ files'[g] = files[g]]_vars

\* an upload for an owner without a user record has stored its file while
\* another user is stored
C13_Witness ==
  /\ last.op = "upload" /\ Resolved(last.res, Undefined)
  /\ last.pre = Undefined
  /\ last.id \in DOMAIN files
  /\ IdIndexGet(users, files[last.id].ownerId) = Undefined
  /\ DOMAIN users # {}

\* the ids of the trashed file records of `fs` owned by ownerId
TrashOf(fs, ownerId) ==
  {id \in DOMAIN fs : fs[id].ownerId = ownerId /\ fs[id].isTrashed}

Restrict(store, keys) == [k \in keys |-> store[k]]

\* C14: emptyTrash(ownerId) removes exactly the trashed file records of that
\* owner, lowers that owner's storageUsed by the sum of their sizes, and
\* leaves every other file record, every other user record and every folder
\* record (trashed ones too) as they were; after it the owner's trash listing
\* holds no file.
C14_EmptyTrashFrame ==
  [][\A o \in UserIds :
       EmptyTrash(o) =>
         /\ files' = Restrict(files, DOMAIN files \ TrashOf(files, o))
         /\ folders' = folders
         /\ DOMAIN users' = DOMAIN users
         /\ \A k \in DOMAIN users :
              users'[k] =
                IF users[k].id = o
                THEN [users[k] EXCEPT !.storageUsed =
                        @ - OwnedBytes(Restrict(files, TrashOf(files, o)), o)]
                ELSE users[k]
         /\ getTrashedItems(files', folders', o).files = <<>>
         /\ Resolved(last'.res, Undefined)]_vars

\* an emptyTrash has lowered its owner's storageUsed while a trashed file of
\* the other owner and a trashed folder of this owner are still stored
C14_Witness ==
  /\ last.op = "emptyTrash" /\ last.pre # Undefined
  /\ IdIndexGet(users, last.arg[1]) # Undefined
  /\ IdIndexGet(users, last.arg[1]).storageUsed < last.pre.storageUsed
  /\ \E id \in DOMAIN files :
       files[id].isTrashed /\ files[id].ownerId # last.arg[1]
  /\ \E d \in DOMAIN folders :
       folders[d].isTrashed /\ folders[d].ownerId = last.arg[1]

\* the answer agrees with cfg on every field cfg populates
AgreesWith(row, cfg) ==
  \A f \in DOMAIN cfg : f \in DOMAIN row /\ row[f] = cfg[f]

\* C15: 'config' never holds more than one row; getCDNConfig answers
\* { provider: 'local' } while nothing has been put; after a put it answers a
\* record that has the fields of the config put last with their values and,
\* besides the key, no other field (nothing of an earlier config stays); a
\* call that is not a put leaves the answer as it was.
C15_ConfigRoundTrip ==
  /\ [](Cardinality(DOMAIN config) <= 1)
  /\ [](config = <<>> => getCDNConfig(config) = Resolve(DefaultConfig))
  /\ [][(last'.op = "putConfig" =>
            /\ Resolved(last'.res, Undefined)
            /\ getCDNConfig(config').settled = "resolve"
            /\ AgreesWith(getCDNConfig(config').value, last'.arg[1])
            /\ DOMAIN getCDNConfig(config').value \subseteq
                 DOMAIN last'.arg[1] \cup {"key"})
         /\ (last'.op # "putConfig" => getCDNConfig(config') = getCDNConfig(config))
         /\ (GetConfig => last'.res = getCDNConfig(config))]_vars

\* getCDNConfig has answered the stored row (it carries the key) of a config
\* that leaves rootPath out and names a provider other than the default
C15_Witness ==
  /\ last.op = "getConfig" /\ last.res.settled = "resolve"
  /\ "key" \in DOMAIN last.res.value
  /\ "rootPath" \notin DOMAIN last.res.value
  /\ last.res.value["provider"] = "wasabi"

\* C16: no stored file record is trashed and shared at once, whatever the
\* order of upload, trash, restore and setShare calls, a setShare(true) on a
\* trashed file included.
C16_TrashShareExclusive ==
  \A id \in DOMAIN files : ~(files[id].isTrashed /\ files[id].isShared)

\* every shared record has a token, and no two shared records have the same
TokenInvariant(fs) ==
  \A a \in DOMAIN fs :
    fs[a].isShared =>
      /\ fs[a].shareToken # NoToken
      /\ \A b \in DOMAIN fs \ {a} :
           fs[b].isShared => fs[b].shareToken # fs[a].shareToken

\* C17 as stated: in every reachable state every shared file has a token and
\* no two shared files have the same token, for every sequence of setShare
\* calls the engine accepts.
C17_Original == TokenInvariant(files)

\* the step, if it is a setShare that enables sharing, is given a token that
\* is present and that no other shared record carries
CallerKeepsTokens ==
  \A id \in FileIds, t \in Tokens \cup {NoToken} :
    SetShare(id, TRUE, t) =>
      /\ t # NoToken
      /\ \A g \in DOMAIN files \ {id} : files[g].isShared => files[g].shareToken # t

\* C17 (amended): the empty store has the token invariant, and every call
\* keeps it (every shared file has a token, no two shared files the same)
\* provided each setShare that enables sharing is given a token that is
\* present and that no other shared file carries.
C17_ShareTokenInvariant ==
  /\ TokenInvariant(files)
  /\ [][(TokenInvariant(files) /\ CallerKeepsTokens) => TokenInvariant(files')]_vars

\* a setShare has left two files shared under different tokens
C17_Witness ==
  /\ last.op = "setShare" /\ Resolved(last.res, Undefined)
  /\ last.arg[2] = TRUE
  /\ TokenInvariant(files)
  /\ \E a, b \in DOMAIN files :
       /\ a # b /\ files[a].isShared /\ files[b].isShared
       /\ ~files[a].isTrashed /\ ~files[b].isTrashed

\* C18: setShare(id, false, token) on a stored file leaves it not shared,
\* without a shareToken and without a shareCreatedAt, for every token
\* argument (none included); setShare(id, true, T) leaves it shared, with
\* shareToken T and shareCreatedAt set.
C18_SetShareFields ==
  [][\A id \in DOMAIN files, t \in Tokens \cup {NoToken} :
       /\ SetShare(id, FALSE, t) =>
            /\ ~files'[id].isShared
            /\ files'[id].shareToken = NoToken
            /\ ~files'[id].shareCreatedAt
       /\ (t # NoToken /\ SetShare(id, TRUE, t)) =>
            /\ files'[id].isShared
            /\ files'[id].shareToken = t
            /\ files'[id].shareCreatedAt]_vars

\* the user records after ownerId's storageUsed has moved by bytes
UsersAfter(us, ownerId, bytes) ==
  [k \in DOMAIN us |->
     IF us[k].id = ownerId
     THEN [us[k] EXCEPT !.storageUsed = @ + bytes] ELSE us[k]]

\* C19: trash, restore and setShare change no user record, and leave the
\* bytes every owner's files hold as they were (a trashed file still counts);
\* an upload adds the file's size to its owner's storageUsed and a purge
\* subtracts the size it is given from the storageUsed of the owner it is
\* given, and neither changes another user record.
C19_QuotaFrame ==
  [][(\A id \in FileIds :
        (\/ Trash(id) \/ Restore(id)
         \/ \E b \in BOOLEAN, t \in Tokens \cup {NoToken} : SetShare(id, b, t)) =>
          /\ users' = users
          /\ DOMAIN files' = DOMAIN files
          /\ \A o \in UserIds : OwnedBytes(files', o) = OwnedBytes(files, o))
     /\ (last'.op = "upload" =>
          users' = UsersAfter(users, last'.arg[1].ownerId, last'.arg[1].size))
     /\ (last'.op = "purge" =>
          users' = UsersAfter(users, last'.arg[2], 0 - last'.arg[3]))]_vars

\* a trash has settled and its file, still stored with its size, is counted
\* in the storageUsed of its owner next to another file of that owner
C19_Witness ==
  /\ last.op = "trash"
  /\ last.arg[1] \in DOMAIN files
  /\ files[last.arg[1]].isTrashed
  /\ IdIndexGet(users, files[last.arg[1]].ownerId) # Undefined
  /\ IdIndexGet(users, files[last.arg[1]].ownerId).storageUsed
       = OwnedBytes(files, files[last.arg[1]].ownerId)
  /\ OwnedBytes(files, files[last.arg[1]].ownerId) > files[last.arg[1]].size

\* C20: a file record leaves 'files' only from the trashed state, never while
\* it is active, whichever caller purges it: the trash view, emptyTrash or
\* the admin's global file deletion.
C20_PurgeOnlyFromTrash ==
  [][\A id \in DOMAIN files :
       id \notin DOMAIN files' => files[id].isTrashed]_vars

\* C21: between calls no user's storageUsed is negative.
C21_NonNegative ==
  \A k \in DOMAIN users : users[k].storageUsed >= 0

\* C22: an upload under a free file id is never refused for quota: whatever
\* the owner's storageUsed and storageLimit and the file's size, it resolves,
\* stores the record and adds the size to the owner's storageUsed.
C22_QuotaAdvisory ==
  [][\A id \in FileIds, o \in UserIds, sz \in Sizes :
       (id \notin DOMAIN files /\ Upload(NewFile(id, o, Root, sz))) =>
         /\ Resolved(last'.res, Undefined)
         /\ files' = StorePut(files, id, NewFile(id, o, Root, sz))
         /\ IdIndexGet(users, o) # Undefined =>
              /\ IdIndexGet(users', o) # Undefined
              /\ IdIndexGet(users', o).storageUsed
                   = IdIndexGet(users, o).storageUsed + sz]_vars

\* an upload has resolved that took its owner from within storageLimit to
\* beyond it
C22_Witness ==
  /\ last.op = "upload" /\ Resolved(last.res, Undefined)
  /\ last.pre # Undefined
  /\ last.pre.storageUsed <= last.pre.storageLimit
  /\ IdIndexGet(users, last.pre.id) # Undefined
  /\ IdIndexGet(users, last.pre.id).storageUsed > last.pre.storageLimit
  /\ last.id \in DOMAIN files

\* C24: every folder record's parentId is the root sentinel or the id of a
\* stored folder record (a null parentId, which the type allows, is let
\* pass).
C24_FolderParent ==
  \A d \in DOMAIN folders :
    folders[d].parentId \in {Root, NullId} \cup DOMAIN folders

\* C23: however many calls are made before the open request completes, one
\* open request is issued; every caller that waits waits for that request,
\* every caller that gets a handle gets the handle of that request, and no
\* call made after the request has completed issues another.
C23_OneOpen ==
  /\ Len(db.reqs) <= 1
  /\ (\E c \in Slots : calls[c] # IdleCall) => Len(db.reqs) = 1
  /\ \A c \in Slots :
       calls[c].pc = "await" =>
         /\ calls[c].awaiting = db.promise
         /\ db.reqs[db.promise] = "pending"
  /\ \A c \in Slots :
       calls[c].pc = "done" =>
         /\ db.promise # NoHandle
         /\ db.reqs[db.promise] = "success"
         /\ calls[c].res = Resolve(db.promise)

\* two callers that waited for the open request and one that came after it
\* had completed hold the same handle, with one request issued
C23_Witness ==
  /\ Len(db.reqs) = 1
  /\ \E a, b, c \in Slots :
       /\ a # b /\ a # c /\ b # c
       /\ calls[a].pc = "done" /\ calls[a].waited
       /\ calls[b].pc = "done" /\ calls[b].waited
       /\ calls[c].pc = "done" /\ ~calls[c].waited
       /\ calls[a].res = calls[b].res /\ calls[b].res = calls[c].res

\* the fields of a file record that trash, restore and setShare may change
MutableFields == {"isTrashed", "trashedAt", "isShared", "shareToken", "shareCreatedAt"}

\* record g has the fields of record f, with f's values outside `fields`
SameBut(f, g, fields) ==
  /\ DOMAIN g = DOMAIN f
  /\ \A x \in DOMAIN f \ fields : g[x] = f[x]

\* C25: no call changes the id, ownerId, parentId, size or type of a file
\* record that stays stored, nor the id, ownerId or parentId of a folder
\* record; trash, restore and setShare change nothing but the trash and
\* share fields of the file they name, and leave every other file record
\* and every folder record as they were.
C25_ImmutableFields ==
  [][/\ \A id \in DOMAIN files \cap DOMAIN files' :
          SameBut(files[id], files'[id], MutableFields)
     /\ \A d \in DOMAIN folders : d \in DOMAIN folders' /\ folders'[d] = folders[d]
     /\ \A id \in DOMAIN files :
          (\/ Trash(id) \/ Restore(id)
           \/ \E b \in BOOLEAN, t \in Tokens \cup {NoToken} : SetShare(id, b, t)) =>
            /\ DOMAIN files' = DOMAIN files
            /\ \A g \in DOMAIN files \ {id} : files'[g] = files[g]
            /\ folders' = folders]_vars

\* a setShare has changed the share fields of one file while a trashed file
\* in another folder and a folder record are stored
C25_Witness ==
  /\ last.op = "setShare" /\ Resolved(last.res, Undefined)
  /\ files[last.arg[1]].isShared /\ files[last.arg[1]].shareToken = "t1"
  /\ \E g \in DOMAIN files :
       /\ g # last.arg[1] /\ files[g].isTrashed
       /\ files[g].parentId # files[last.arg[1]].parentId
  /\ DOMAIN folders # {}

C27_SeedIdempotent ==
  [][SeedAdmin =>
       /\ Cardinality({k \in DOMAIN users' : users'[k].username = "admin"}) = 1
       /\ seedAdmin(users').users = users'
       /\ seedAdmin(seedAdmin(users').users).users = users'
       /\ last.op = "seedAdmin" => users' = users]_vars

\* a seeding has run on the store the seeding before it had left, with
\* another user stored
C27_Witness ==
  /\ last.op = "seedAdmin" /\ last.pre = AdminUser
  /\ "admin" \in DOMAIN users /\ users["admin"] = AdminUser
  /\ "alice" \in DOMAIN users

FileTypes == {"IMAGE", "VIDEO", "AUDIO", "DOCUMENT", "ARCHIVE", "UNKNOWN"}

\* C28: getFileType answers one of the six types for every mime type, by the
\* first rule that holds: prefix image/, prefix video/, prefix audio/, then
\* contains pdf, text or document, then contains zip, rar or 7z, else
\* UNKNOWN; the empty mime type is UNKNOWN and one with text and zip is
\* DOCUMENT.
C28_TypePrecedence ==
  last.op = "getFileType" =>
    LET m == last.arg[1]
        t == last.res.value
        image == StartsWith(m, ImagePrefix)
        video == StartsWith(m, VideoPrefix)
        audio == StartsWith(m, AudioPrefix)
        doc == Includes(m, Pdf) \/ Includes(m, Text) \/ Includes(m, Document)
        arch == Includes(m, Zip) \/ Includes(m, Rar) \/ Includes(m, SevenZ)
    IN /\ t \in FileTypes
       /\ (t = "IMAGE") = image
       /\ (t = "VIDEO") = (~image /\ video)
       /\ (t = "AUDIO") = (~image /\ ~video /\ audio)
       /\ (t = "DOCUMENT") = (~image /\ ~video /\ ~audio /\ doc)
       /\ (t = "ARCHIVE") = (~image /\ ~video /\ ~audio /\ ~doc /\ arch)
       /\ (t = "UNKNOWN") = (~image /\ ~video /\ ~audio /\ ~doc /\ ~arch)
       /\ m = NoMime => t = "UNKNOWN"
       /\ (m = Text \o Zip \/ m = Zip \o Text) => t = "DOCUMENT"

\* a mime type with zip ahead of text has been classified as DOCUMENT
C28_Witness ==
  /\ last.op = "getFileType"
  /\ last.arg[1] = Zip \o Text
  /\ last.res.value = "DOCUMENT"

\* call c began while call o was in flight, both adjust the usage of one
\* user, and o has written
Overlapped(o, c) ==
  /\ o \in calls[c].with
  /\ calls[o].pc = "done" /\ calls[o].op = "adjustUsage"
  /\ calls[o].local # Undefined
  /\ calls[o].arg[1] = calls[c].arg[1]

TrashRestore(o, c) ==
  /\ o \in calls[c].with
  /\ calls[o].pc = "done" /\ calls[o].local # Undefined
  /\ {calls[o].op, calls[c].op} = {"trash", "restore"}
  /\ calls[o].arg = calls[c].arg

\* C30: a trash and a restore of one stored file that overlap both resolve;
\* when the later has written, the record is the one it wrote, marked as its
\* call marks it, and is what the two calls leave when run one after the
\* other in one of the two orders; every other file record is as it was
\* when the calls began.
C30_TrashRestoreRace ==
  [][\A c \in RaceSlots, o \in RaceSlots :
       (/\ calls[c].pc = "read" /\ calls[c].op \in {"trash", "restore"}
        /\ TrashRestore(o, c)
        /\ TxWrite(c)) =>
         LET id == calls[c].arg[1]
             base == calls[c].base
             tr == restoreFile(trashFile(base, id).files, id).files
             rt == trashFile(restoreFile(base, id).files, id).files
         IN /\ Resolved(calls[o].res, Undefined)
            /\ Resolved(calls'[c].res, Undefined)
            /\ files'[id].isTrashed = (calls[c].op = "trash")
            /\ files' \in {tr, rt}
            /\ files' = IF calls[c].op = "restore" THEN tr ELSE rt
            /\ \A g \in DOMAIN base \ {id} : files'[g] = base[g]
            /\ DOMAIN files' = DOMAIN base]_vars

\* an overlapping trash and restore of a shared file have both written, the
\* restore last, with another file stored
C30_Witness ==
  \E o \in RaceSlots, c \in RaceSlots :
    /\ calls[c].pc = "done" /\ calls[c].op = "restore"
    /\ calls[c].local # Undefined
    /\ TrashRestore(o, c)
    /\ last.op = "restore"
    /\ calls[c].base[calls[c].arg[1]].isShared
    /\ ~calls[c].base[calls[c].arg[1]].isTrashed
    /\ calls[c].local.isTrashed
    /\ ~files[calls[c].arg[1]].isTrashed /\ ~files[calls[c].arg[1]].isShared
    /\ DOMAIN files # {calls[c].arg[1]}

\* C31: an upload under a file id that is stored fails, leaves 'files' as it
\* was and leaves the owner's storageUsed raised by the size of the file
\* that was not stored.
C31_UploadNotCompensated ==
  [][\A id \in FileIds, o \in UserIds, sz \in Sizes :
       (id \in DOMAIN files /\ Upload(NewFile(id, o, Root, sz))) =>
         /\ Rejected(last'.res, ConstraintError)
         /\ files' = files
         /\ users' = updateUserStorage(users, o, sz)
         /\ IdIndexGet(users, o) # Undefined =>
              IdIndexGet(users', o).storageUsed
                = IdIndexGet(users, o).storageUsed + sz]_vars

\* an upload has been rejected and its owner's storageUsed, which equalled
\* the bytes of the owner's stored files before, is above them now
C31_Witness ==
  /\ last.op = "upload" /\ Rejected(last.res, ConstraintError)
  /\ last.pre # Undefined
  /\ last.pre.storageUsed = OwnedBytes(files, last.pre.id)
  /\ IdIndexGet(users, last.pre.id) # Undefined
  /\ IdIndexGet(users, last.pre.id).storageUsed
       = OwnedBytes(files, last.pre.id) + last.arg[1].size

\* C33: a purge resolves and subtracts the size it is given from the
\* storageUsed of the owner it is given, whatever 'files' holds: no file
\* under the id, a file that is not trashed, a file of another owner or of
\* another size; the record under the id, if any, is removed.
C33_PurgeBlind ==
  [][\A id \in FileIds, o \in UserIds, sz \in Sizes :
       Purge(id, o, sz) =>
         /\ Resolved(last'.res, Undefined)
         /\ users' = updateUserStorage(users, o, 0 - sz)
         /\ IdIndexGet(users, o) # Undefined =>
              IdIndexGet(users', o).storageUsed
                = IdIndexGet(users, o).storageUsed - sz
         /\ files' = StoreDelete(files, id)]_vars

\* a purge of an id under which no file was left has resolved and has taken
\* the storageUsed of an owner without files below zero
C33_Witness ==
  /\ last.op = "purge" /\ Resolved(last.res, Undefined)
  /\ last.arg[1] \notin DOMAIN files
  /\ IdIndexGet(users, last.arg[2]) # Undefined
  /\ IdIndexGet(users, last.arg[2]).storageUsed < 0
  /\ OwnedBytes(files, last.arg[2]) = 0

\* C36: a seeding on a store that holds a user 'admin' replaces that record
\* with the built-in default (storageUsed 0, active, the default password,
\* role admin, plan enterprise), whatever the record held, and changes no
\* other record.
C36_SeedOverwrites ==
  [][SeedAdmin =>
       /\ DOMAIN users' = DOMAIN users \cup {"admin"}
       /\ users'["admin"] = AdminUser
       /\ users'["admin"].storageUsed = 0 /\ users'["admin"].isActive
       /\ users'["admin"].password = "password"
       /\ users'["admin"].role = "admin" /\ users'["admin"].plan = "enterprise"
       /\ \A k \in DOMAIN users \ {"admin"} : users'[k] = users[k]]_vars

\* a seeding has found an admin that was blocked, had another password,
\* another plan and bytes counted, and has left the default
C36_Witness ==
  /\ last.op = "seedAdmin" /\ last.pre # Undefined
  /\ ~last.pre.isActive /\ last.pre.password = "hunter2"
  /\ last.pre.plan = "pro" /\ last.pre.storageUsed > 0
  /\ users["admin"] = AdminUser

\* C39: every user record is stored under its username and no two user
\* records have the same id; register and updateUser of a record whose id a
\* user of another username holds fail and leave 'users' as it was.
C39_IdentityUnique ==
  /\ [](/\ \A k \in DOMAIN users : users[k].username = k
        /\ \A i \in UserIds : Cardinality({k \in DOMAIN users : users[k].id = i}) <= 1)
  /\ [][\A u \in Usernames, i \in UserIds, p \in Secrets, a \in BOOLEAN :
          (\E k \in DOMAIN users : k # u /\ users[k].id = i) =>
            /\ Register(NewUser(i, u, p)) =>
                 Rejected(last'.res, DuplicateIdentity) /\ users' = users
            /\ UpdateUser(User(i, u, p, 0, a)) =>
                 Rejected(last'.res, ConstraintError) /\ users' = users]_vars

\* an updateUser of a record with the id of the other stored user has been
\* rejected, with two users stored
C39_Witness ==
  /\ last.op = "updateUser" /\ Rejected(last.res, ConstraintError)
  /\ \E k \in DOMAIN users :
       k # last.arg[1].username /\ users[k].id = last.arg[1].id
  /\ last.arg[1].username \in DOMAIN users
  /\ Cardinality(DOMAIN users) = 2

\* the open request has settled and there is no handle: the request failed,
\* or a version change closed the handle it gave
Unavailable ==
  /\ db.promise # NoHandle
  /\ db.reqs[db.promise] # "pending"
  /\ db.instance = NoHandle

\* C38: once the open request has failed, or the handle has been closed by
\* a version change, no step issues an open request or sets a handle, and
\* no call gets a handle: every call made from then on fails.
C38_UnavailableForGood ==
  [][Unavailable =>
       /\ db' = db
       /\ \A c \in Slots :
            /\ calls'[c].pc = "done" => calls[c].pc = "done"
            /\ GetDB(c) =>
                 /\ calls'[c].pc = "failed"
                 /\ calls'[c].res.settled = "reject"]_vars

\* a caller that got the handle still holds it, a version change has closed
\* it since, and a later call has failed
C38_Witness ==
  /\ Unavailable
  /\ db.reqs[db.promise] = "success"
  /\ \E a \in Slots, b \in Slots :
       /\ calls[a].pc = "done"
       /\ calls[b].pc = "failed" /\ Rejected(calls[b].res, InitFailed)

\* no file record carries the token
Unheld(fs, t) == \A g \in DOMAIN fs : fs[g].shareToken # t

\* C37: the toggle turns sharing on under the token the record carries,
\* when it carries one, and under a token never generated before when it
\* carries none; trash leaves the token in the record and the toggle's
\* disable takes it out.  So a file shared under T, trashed, restored and
\* shared again resolves under T again, and a token that no record carries
\* any more is never carried or resolved again.
C37_StaleToken ==
  [][/\ \A id \in DOMAIN files :
          /\ Trash(id) => files'[id].shareToken = files[id].shareToken
          /\ ShareToggle(id) =>
               IF files[id].isShared
               THEN ~files'[id].isShared /\ files'[id].shareToken = NoToken
               ELSE IF files[id].shareToken # NoToken
               THEN /\ files'[id].isShared
                    /\ files'[id].shareToken = files[id].shareToken
                    /\ minted' = minted
                    /\ \E g \in DOMAIN files' :
                         /\ files'[g].shareToken = files[id].shareToken
                         /\ getFileByShareToken(files', files[id].shareToken) = files'[g]
               ELSE /\ files'[id].isShared
                    /\ minted' = minted + 1
                    /\ files'[id].shareToken = TokenOrder[minted']
                    /\ \A i \in 1..minted : files'[id].shareToken # TokenOrder[i]
     /\ \A i \in 1..minted :
          Unheld(files, TokenOrder[i]) =>
            /\ Unheld(files', TokenOrder[i])
            /\ \A g \in DOMAIN files' :
                 getFileByShareToken(files', TokenOrder[i]) # files'[g]]_vars

\* the toggle has turned sharing on for a file that was not shared and
\* carried the first token; the token resolves to the file, and no other
\* token has been generated
C37_Witness ==
  /\ last.op = "shareToggle" /\ Resolved(last.res, Undefined)
  /\ ~last.pre.isShared /\ last.pre.shareToken = TokenOrder[1]
  /\ minted = 1
  /\ files[last.arg[1]].isShared
  /\ getFileByShareToken(files, TokenOrder[1]) = files[last.arg[1]]

\* C40 as stated: a systemStats call always returns: the totals, or the
\* all-zero totals when a store access fails.
C40_Original ==
  \A c \in Slots :
    calls[c].op = "systemStats" =>
      /\ calls[c].pc = "done"
      /\ calls[c].res.settled = "resolve"

\* C40: systemStats changes no store.  With the store in reach it returns
\* the number of user records, the number of file records, trashed ones
\* included, the sum of their sizes and the split floor(0.4n), floor(0.3n),
\* floor(0.1n), floor(0.2n) of the file count n, which sums to at most n,
\* or, when a request of a scan fails, zero totals and an empty split.  With
\* the store out of reach the call never settles.
C40_SystemStats ==
  [][\A c \in Slots, requestFails \in BOOLEAN :
       /\ SystemStats(c, requestFails) =>
            /\ UNCHANGED <<users, files, folders, config>>
            /\ IF StoreFails THEN calls'[c].pc = "pending"
               ELSE IF requestFails THEN calls'[c].res = Resolve(ZeroStats)
               ELSE LET st == calls'[c].res.value
                        n == Cardinality(DOMAIN files)
                    IN /\ calls'[c].res.settled = "resolve"
                       /\ st.totalUsers = Cardinality(DOMAIN users)
                       /\ st.totalFiles = n
                       /\ st.totalStorage = SizeSum(files, DOMAIN files)
                       /\ st.recentUploads
                            = <<(4 * n) \div 10, (3 * n) \div 10, n \div 10, (2 * n) \div 10>>
                       /\ st.recentUploads[1] + st.recentUploads[2]
                            + st.recentUploads[3] + st.recentUploads[4] <= n
       /\ (calls[c].op = "systemStats" /\ calls[c].pc = "pending") =>
            calls'[c] = calls[c]]_vars

\* systemStats has returned the totals for five files, one of them trashed,
\* and two users, while another call made after the handle was closed is
\* pending
C40_Witness ==
  \E a \in Slots, b \in Slots :
    /\ calls[a].op = "systemStats" /\ calls[a].pc = "done"
    /\ calls[a].res.value.totalFiles = 5
    /\ calls[a].res.value.totalUsers = 2
    /\ calls[a].res.value.recentUploads = <<2, 1, 0, 1>>
    /\ \E id \in DOMAIN files : files[id].isTrashed
    /\ calls[b].op = "systemStats" /\ calls[b].pc = "pending"
    /\ StoreFails

\* C32: an upload writes the quota in a first step that leaves 'files' as
\* it is and adds the record in a second step that leaves 'users' as it is;
\* a purge subtracts in a first step and deletes in a second.  Between the
\* steps of an upload under a free id the owner's storageUsed is the bytes
\* of the owner's stored files and the size of the file, which is not
\* stored; between the steps of a purge the file is stored and storageUsed
\* is the bytes of the owner's stored files less its size.  A purge whose
\* second step fails leaves the file stored and storageUsed that much less.
C32_StepOrder ==
  /\ [](LET call == calls[StepSlot] IN
        (call.pc = "store" /\ ~StoreFails) =>
          LET u == IdIndexGet(users, OwnerOf(call)) IN
          IF call.op = "upload"
          THEN call.arg[1].id \notin DOMAIN files =>
                 u.storageUsed = OwnedBytes(files, u.id) + call.arg[1].size
          ELSE /\ call.arg[1] \in DOMAIN files
               /\ u.storageUsed = OwnedBytes(files, u.id) - call.arg[3])
  /\ [][LET call == calls[StepSlot] IN
        /\ (StepAdjust(StepSlot) /\ ~StoreFails) =>
             /\ files' = files
             /\ users' = updateUserStorage(users, OwnerOf(call), BytesOf(call, files))
             /\ IdIndexGet(users', OwnerOf(call)).storageUsed
                  = IdIndexGet(users, OwnerOf(call)).storageUsed + BytesOf(call, files)
        /\ StepStore(StepSlot) =>
             /\ users' = users
             /\ (call.op = "purge" /\ ~StoreFails) =>
                  files' = StoreDelete(files, call.arg[1])
             /\ (call.op = "upload" /\ ~StoreFails
                   /\ call.arg[1].id \notin DOMAIN files) =>
                  files' = StorePut(files, call.arg[1].id, call.arg[1])
             /\ StoreFails =>
                  /\ files' = files
                  /\ calls'[StepSlot].pc = "failed"]_vars

\* a purge has subtracted the size, a version change has closed the handle,
\* and the purge has failed: the file is stored and the owner's storageUsed
\* is below the bytes of the owner's stored files
C32_Witness ==
  LET call == calls[StepSlot] IN
  /\ call.op = "purge" /\ call.pc = "failed"
  /\ Rejected(call.res, InitFailed)
  /\ call.arg[1] \in DOMAIN files
  /\ IdIndexGet(users, call.arg[2]).storageUsed
       = OwnedBytes(files, call.arg[2]) - call.arg[3]

\* C35: an edit stores the record the caller read, edited, under its
\* username, whatever the store holds then: the stored storageUsed becomes
\* the one of the caller's copy, and an adjustment committed since the copy
\* was read is gone.
C35_StaleCopyWins ==
  [][\A c \in EditSlots :
       PutEdit(c, EditOf(c)) =>
         LET copy == calls[c].copy
             kind == EditOf(c) IN
         /\ Resolved(calls'[c].res, Undefined)
         /\ users' = StorePut(users, copy.username, Edited(copy, kind))
         /\ users'[copy.username].storageUsed = copy.storageUsed]_vars

\* an edit has been made on a copy read before an adjustment: the record
\* held storageUsed other than the copy's before the put, and holds the
\* copy's after it
C35_Witness ==
  \E c \in EditSlots :
    /\ calls[c].op = "editUser" /\ calls[c].pc = "done"
    /\ calls[c].had # Undefined
    /\ calls[c].had.storageUsed # calls[c].copy.storageUsed
    /\ users[calls[c].copy.username].storageUsed = calls[c].copy.storageUsed
    /\ users[calls[c].copy.username].plan = "pro"

\* C34: emptyTrash fixes its list at the scan, as the owner's trashed files
\* of that moment, and keeps it; each turn subtracts the listed size from
\* the owner's storageUsed and deletes the listed id, whether the file is
\* still stored or still trashed at that moment or not, and the call that
\* has ended has left no file of its list in the store.
C34_Snapshot ==
  /\ [](\A c \in SnapSlots :
          (calls[c].op = "emptyTrash" /\ calls[c].pc = "done") =>
            \A j \in 1..Len(calls[c].list) : calls[c].list[j].id \notin DOMAIN files)
  /\ [][\A c \in SnapSlots :
          LET call == calls[c] IN
          /\ StepScan(c) =>
               /\ calls'[c].list = getTrashedItems(files, folders, "u-1").files
               /\ \A id \in DOMAIN files :
                    (files[id].ownerId = "u-1" /\ files[id].isTrashed)
                      <=> (\E j \in 1..Len(calls'[c].list) : calls'[c].list[j] = files[id])
          /\ StepAdjust(c) =>
               /\ calls'[c].list = call.list /\ calls'[c].i = call.i
               /\ users' = updateUserStorage(users, "u-1", 0 - call.list[call.i].size)
               /\ users'["alice"].storageUsed
                    = users["alice"].storageUsed - call.list[call.i].size
          /\ StepStore(c) =>
               /\ calls'[c].list = call.list
               /\ files' = StoreDelete(files, call.list[call.i].id)
               /\ IF call.i < Len(call.list)
                  THEN calls'[c].pc = "adjust" /\ calls'[c].i = call.i + 1
                  ELSE calls'[c].pc = "done"]_vars

\* an emptyTrash has ended whose last turn deleted a file that had been
\* restored since the scan, and one of whose turns subtracted the size of a
\* file purged since the scan: the owner's storageUsed is below the bytes
\* of the owner's stored files
C34_Witness ==
  \E c \in SnapSlots :
    /\ calls[c].op = "emptyTrash" /\ calls[c].pc = "done"
    /\ Len(calls[c].list) = 2
    /\ calls[c].had # Undefined /\ ~calls[c].had.isTrashed
    /\ users["alice"].storageUsed < OwnedBytes(files, "u-1")

====
